---- MODULE Spec2Model ----
(***************************************************************************)
(* Model of the migration engine of arthurdotwork/mig:                     *)
(*   internal/migrations  (LoadMigrations, CreateMigrationFile,            *)
(*                         GetPendingMigrations)                           *)
(*   internal/database    (mig_versions, mig_history, Record*, GetApplied) *)
(*   internal/executor    (New, Close, ExecuteMigration,                   *)
(*                         ExecuteNextMigration, ExecuteAllMigrations,     *)
(*                         GetPendingMigrations, Status)                   *)
(*   internal/config      (Load, Validate)                                 *)
(*   package mig          (Manager.Status)                                 *)
(* Every database round trip of the executor is one step; a round trip     *)
(* either succeeds or returns an error.  A transaction's writes are held   *)
(* in tx until Commit and are invisible to the committed tables before.    *)
(***************************************************************************)
EXTENDS Integers, Sequences, FiniteSets, TLC

VARIABLES
    migrations,    \* Executor.migrations: the loaded list, in load order
    applied,       \* Executor.applied: cached versions, as last fetched
    mig_versions,  \* committed rows of table mig_versions, ORDER BY id
    mig_history,   \* committed rows of table mig_history, ORDER BY id
    schema,        \* schema[id]: times the statement batch of id took effect (committed)
    tx,            \* the open *sql.Tx and its uncommitted writes
    pc,            \* position inside the running call ("idle" between calls)
    op,            \* the outermost call in progress: one / next / all / none
    cur,           \* ID of the migration ExecuteMigration is running (0: none)
    count,         \* ExecuteAllMigrations' local count
    ret,           \* the last finished call: what it returned (and was given)
    prev,          \* the call before it: which one, and whether it failed
    pre,           \* snapshot of store and cache taken when the call started
    log,           \* IDs ExecuteMigration was invoked with during the call
    ran,           \* IDs whose statement batch ran without error during the call
    anyErr,        \* some call on this engine has returned an error
    faults,        \* number of injected round-trip errors so far
    direct,        \* number of direct ExecuteMigration calls so far
    dir,           \* the migrations directory: whether it exists, and its entries
    db,            \* Executor.db: "nil" (no engine), "open" or "closed"
    tables,        \* the tables that exist in the database
    executors,     \* engines working concurrently on the store: position, tx, result
    config         \* the config file, the environment and what Load returned

vars == <<migrations, applied, mig_versions, mig_history, schema, tx, pc, op,
          cur, count, ret, prev, pre, log, ran, anyErr, faults, direct, dir,
          db, tables, executors, config>>

\* ------------------------------------------------------------------ bounds
MaxMigrations == 2   \* Spec: at most this many files in the directory
MaxEngineMigrations == 3   \* SpecEngine: at most this many files in the directory
MaxPendingIDs == 4   \* SpecPending: migration IDs range over 1..MaxPendingIDs
MaxFaults == 1       \* at most this many round trips return an injected error
MaxApply == 2        \* a non-transactional batch is let through at most this often
MaxDirect == 1       \* at most this many direct calls of ExecuteMigration

\* ----------------------------------------------------------------- helpers
Range(s) == {s[k] : k \in DOMAIN s}

Versions(rows) == [k \in DOMAIN rows |-> rows[k].Version]

\* migrations.Migration: ID doubles as the (timestamp, id) sort key, Content is
\* the opaque SQL text of the file.
Migration(i, d) == [ID |-> i, Content |-> <<"sql", i>>, DisableTx |-> d]

MigrationByID(i) == CHOOSE m \in Range(migrations) : m.ID = i

NoTx == [active |-> FALSE, stmts |-> {}, versions |-> <<>>, history |-> <<>>]

\* The engine has loaded its migrations and never looks at the directory again.
NoDir == [exists |-> TRUE, entries |-> <<>>]

\* The tables InitializeTables creates.
Tables == {"mig_versions", "mig_history"}

\* No further engine works on the store.
NoExecutors == <<>>

\* No config file is being loaded.
NoConfig == <<>>

NoRet == [op |-> "none", err |-> "none", executed |-> FALSE, count |-> 0]

\* What is kept of the call before the last: which call, and whether it failed.
Outcome(r) == [op |-> r.op, failed |-> (r.err # "none")]

Snapshot == [versions |-> mig_versions, history |-> mig_history,
             schema |-> schema, applied |-> applied, dir |-> dir]

\* ------------------------------------------------ migrations.GetPendingMigrations
\* appliedMap: the set of keys of the lookup map built by the first loop.
AppliedMap(appliedMigrations) ==
    {appliedMigrations[k].Version : k \in DOMAIN appliedMigrations}

RECURSIVE FilterPending(_, _, _)
FilterPending(allMigrations, appliedMap, i) ==
    IF i = 0 THEN <<>>
    ELSE LET rest == FilterPending(allMigrations, appliedMap, i - 1)
         IN  IF allMigrations[i].ID \notin appliedMap
             THEN Append(rest, allMigrations[i])
             ELSE rest

\* Mutant: the applied list is taken to be a prefix of the loaded list, and
\* the migrations after it are returned without comparing ids.
GetPendingMigrations_ByPosition(allMigrations, appliedMigrations) ==
    IF Len(appliedMigrations) >= Len(allMigrations)
    THEN <<>>
    ELSE SubSeq(allMigrations, Len(appliedMigrations) + 1, Len(allMigrations))

GetPendingMigrations(allMigrations, appliedMigrations) ==
    FilterPending(allMigrations, AppliedMap(appliedMigrations), Len(allMigrations))

\* Executor.GetPendingMigrations
Pending == GetPendingMigrations(migrations, applied)

\* --------------------------------------------------------------- the store
\* Mutant: the version column carries no UNIQUE constraint.
UniqueViolation_Never(version, visible) == FALSE

\* The UNIQUE constraint on mig_versions.version: an INSERT fails when the
\* version is among the rows the statement can see.
UniqueViolation(version, visible) == version \in Range(Versions(visible))

\* GetAppliedMigrations: SELECT ... FROM mig_versions ORDER BY id
GetAppliedMigrations == mig_versions

VersionRow(version) == [Version |-> version]

HistoryRow(version, sqlContent) == [version |-> version, command |-> sqlContent]

\* ------------------------------------------------------------------ faults
\* A database round trip returns an error: one of the injected failures, or,
\* on a closed *sql.DB, always ("sql: database is closed").
Fault ==
    \/ /\ db # "closed"
       /\ faults < MaxFaults
       /\ faults' = faults + 1
    \/ /\ db = "closed"
       /\ faults' = faults

\* A database round trip returns no error.
NoFault ==
    /\ db # "closed"
    /\ faults' = faults

\* ------------------------------------------------------------------- Init
\* The state executor.New leaves on a fresh database: the tables exist and are
\* empty, the directory holds n files, loaded in (timestamp, id) order.
Constructed(maxFiles) ==
    /\ \E n \in 1..maxFiles :
       \E d \in [1..n -> BOOLEAN] :
          /\ migrations = [i \in 1..n |-> Migration(i, d[i])]
          /\ schema = [i \in 1..n |-> 0]
    /\ applied = <<>>
    /\ mig_versions = <<>>
    /\ mig_history = <<>>
    /\ tx = NoTx
    /\ pc = "idle"
    /\ op = "none"
    /\ cur = 0
    /\ count = 0
    /\ ret = NoRet
    /\ prev = [op |-> "none", failed |-> FALSE]
    /\ pre = [versions |-> <<>>, history |-> <<>>,
              schema |-> schema, applied |-> <<>>, dir |-> NoDir]
    /\ log = <<>>
    /\ ran = <<>>
    /\ anyErr = FALSE
    /\ faults = 0
    /\ direct = 0
    /\ dir = NoDir
    /\ db = "open"
    /\ tables = Tables
    /\ executors = NoExecutors
    /\ config = NoConfig

Init == Constructed(MaxMigrations)

InitEngine == Constructed(MaxEngineMigrations)


\* ------------------------------------------------------ the error values
\* No error.
Nil == [text |-> <<>>, wraps |-> <<>>]

\* The parts of an error text: the words of a format string, and the value
\* printed for a %s operand.
Literal(words) == <<"text", words>>

Operand(value) == <<"%s", value>>

\* The error a failed database round trip returns: the driver's message.
DriverError(kind) ==
    [text |-> <<Literal(IF kind = "unique"
                        THEN "pq: duplicate key value violates unique constraint"
                        ELSE "driver: bad connection")>>,
     wraps |-> <<>>]

\* fmt.Errorf(format, id, err) with %s and %w: the text around the operands,
\* the operand, and the wrapped error.
Errorf(before, id, cause) ==
    [text |-> <<Literal(before), Operand(id), Literal(": ")>>,
     wraps |-> <<cause>>]

\* The error value ExecuteMigration(migration) returns for a failure of the
\* given kind; id is migration.ID.  RecordMigration and RecordHistory build
\* their error without the id and ExecuteMigration returns it as it is.
ExecuteMigrationError(kind, id) ==
    CASE kind = "none" -> Nil
      [] kind = "begin" ->
            Errorf("failed to begin transaction for migration ", id,
                   DriverError(kind))
      [] kind = "exec" ->
            Errorf("failed to execute migration ", id, DriverError(kind))
      [] kind \in {"record", "unique"} ->
            [text |-> <<Literal("failed to record migration version: ")>>,
             wraps |-> <<DriverError(kind)>>]
      [] kind = "history" ->
            [text |-> <<Literal("failed to record migration history: ")>>,
             wraps |-> <<DriverError(kind)>>]
      [] kind = "commit" ->
            Errorf("failed to commit transaction for migration ", id,
                   DriverError(kind))
      [] OTHER ->
            [text |-> <<Literal("failed to query applied migrations: ")>>,
             wraps |-> <<DriverError(kind)>>]

\* err.Error(): the text of the error with that of the errors it wraps.
RECURSIVE ErrorText(_)
ErrorText(err) ==
    IF err.wraps = <<>> THEN err.text
    ELSE err.text \o ErrorText(err.wraps[1])

\* ------------------------------------------------- returning from a call
\* The outermost call returns: op one returns err; op next returns
\* (executed, err); op all returns (count, err).
Done(err, executed, cnt) ==
    /\ pc' = "idle"
    /\ op' = "none"
    /\ cur' = 0
    /\ count' = 0
    /\ ret' = [op |-> op, err |-> err, executed |-> executed, count |-> cnt,
               error |-> ExecuteMigrationError(err, cur)]
    /\ prev' = Outcome(ret)
    /\ anyErr' = (anyErr \/ err # "none")

\* ExecuteMigration returns a non-nil error.  ExecuteNextMigration then
\* returns (false, err) at once, and ExecuteAllMigrations (count, err).
MigrationFailed(err) ==
    Done(err, FALSE, IF op = "all" THEN count ELSE 0)

\* ExecuteMigration returns nil.  Called directly that ends the call;
\* inside ExecuteNextMigration the re-fetch of the applied list follows.
MigrationSucceeded ==
    IF op = "one"
    THEN Done("none", TRUE, 0)
    ELSE /\ pc' = "refetch"
         /\ UNCHANGED <<op, cur, count, ret, prev, anyErr>>

\* ExecuteMigration(migration) is entered: the DisableTx branch.
EnterMigration(m) ==
    /\ cur' = m.ID
    /\ log' = Append(log, m.ID)
    /\ pc' = IF m.DisableTx THEN "exec" ELSE "begin"

\* tx.Rollback(): the transaction's writes are dropped.
Rollback == tx' = NoTx

\* ------------------------------------------------------------ the calls
\* A caller invokes Executor.ExecuteMigration(m) on a loaded migration.
CallExecuteMigration ==
    /\ pc = "idle"
    /\ direct < MaxDirect
    /\ direct' = direct + 1
    /\ \E m \in Range(migrations) :
          /\ cur' = m.ID
          /\ log' = <<m.ID>>
          /\ pc' = IF m.DisableTx THEN "exec" ELSE "begin"
    /\ op' = "one"
    /\ pre' = Snapshot
    /\ ran' = <<>>
    /\ UNCHANGED <<db, tables, executors, config,
                   dir, migrations, applied, mig_versions, mig_history, schema, tx,
                   count, ret, prev, anyErr, faults>>

\* A caller invokes Executor.ExecuteNextMigration().
CallExecuteNext ==
    /\ pc = "idle"
    /\ op' = "next"
    /\ pc' = "next"
    /\ pre' = Snapshot
    /\ log' = <<>>
    /\ ran' = <<>>
    /\ UNCHANGED <<db, tables, executors, config,
                   dir, direct, migrations, applied, mig_versions, mig_history, schema, tx,
                   cur, count, ret, prev, anyErr, faults>>

\* A caller invokes Executor.ExecuteAllMigrations(): count := 0, then the loop.
CallExecuteAll ==
    /\ pc = "idle"
    /\ op' = "all"
    /\ pc' = "next"
    /\ count' = 0
    /\ pre' = Snapshot
    /\ log' = <<>>
    /\ ran' = <<>>
    /\ UNCHANGED <<db, tables, executors, config,
                   dir, direct, migrations, applied, mig_versions, mig_history, schema, tx,
                   cur, ret, prev, anyErr, faults>>

\* Mutant: the last pending migration is executed instead of the first.
ExecuteNextMigration_Last ==
    /\ pc = "next"
    /\ IF Len(Pending) = 0
       THEN /\ Done("none", FALSE, IF op = "all" THEN count ELSE 0)
            /\ UNCHANGED log
       ELSE /\ EnterMigration(Pending[Len(Pending)])
            /\ UNCHANGED <<op, count, ret, prev, anyErr>>
    /\ UNCHANGED <<db, tables, executors, config,
                   dir, direct, migrations, applied, mig_versions, mig_history, schema, tx,
                   pre, ran, faults>>

\* ExecuteNextMigration up to its call of ExecuteMigration(pending[0]).  With
\* nothing pending it returns (false, nil), which ends ExecuteAllMigrations'
\* loop with (count, nil).
ExecuteNextMigration ==
    /\ pc = "next"
    /\ IF Len(Pending) = 0
       THEN /\ Done("none", FALSE, IF op = "all" THEN count ELSE 0)
            /\ UNCHANGED log
       ELSE /\ EnterMigration(Pending[1])
            /\ UNCHANGED <<op, count, ret, prev, anyErr>>
    /\ UNCHANGED <<db, tables, executors, config,
                   dir, direct, migrations, applied, mig_versions, mig_history, schema, tx,
                   pre, ran, faults>>

\* Mutant: the error of db.Exec is ignored and the migration is recorded.
Exec_IgnoresError ==
    /\ pc = "exec"
    /\ \/ /\ schema[cur] < MaxApply
          /\ schema' = [schema EXCEPT ![cur] = @ + 1]
          /\ ran' = Append(ran, cur)
          /\ pc' = "record"
          /\ NoFault
          /\ UNCHANGED <<op, cur, count, ret, prev, anyErr>>
       \/ /\ Fault
          /\ pc' = "record"
          /\ UNCHANGED <<schema, ran, op, cur, count, ret, prev, anyErr>>
    /\ UNCHANGED <<db, tables, executors, config,
                   dir, direct, migrations, applied, mig_versions, mig_history, tx, pre, log>>

\* ------------------------------------- ExecuteMigration, DisableTx branch
\* e.db.Exec(migration.Content): the batch takes effect at once.
Exec ==
    /\ pc = "exec"
    /\ \/ /\ schema[cur] < MaxApply
          /\ schema' = [schema EXCEPT ![cur] = @ + 1]
          /\ ran' = Append(ran, cur)
          /\ pc' = "record"
          /\ NoFault
          /\ UNCHANGED <<op, cur, count, ret, prev, anyErr>>
       \/ /\ Fault
          /\ MigrationFailed("exec")
          /\ UNCHANGED <<schema, ran>>
    /\ UNCHANGED <<db, tables, executors, config,
                   dir, direct, migrations, applied, mig_versions, mig_history, tx, pre, log>>

\* Mutant: the INSERT that reports an error has stored its row all the same.
Record_KeepsRow ==
    /\ pc = "record"
    /\ IF UniqueViolation(cur, mig_versions)
       THEN /\ MigrationFailed("unique")
            /\ NoFault
            /\ UNCHANGED mig_versions
       ELSE \/ /\ mig_versions' = Append(mig_versions, VersionRow(cur))
               /\ pc' = "history"
               /\ NoFault
               /\ UNCHANGED <<op, cur, count, ret, prev, anyErr>>
            \/ /\ Fault
               /\ MigrationFailed("record")
               /\ mig_versions' = Append(mig_versions, VersionRow(cur))
    /\ UNCHANGED <<db, tables, executors, config,
                   dir, direct, migrations, applied, mig_history, schema, tx, pre, log, ran>>

\* database.RecordMigration(e.db, migration.ID, nil): committed on its own.
Record ==
    /\ pc = "record"
    /\ IF UniqueViolation(cur, mig_versions)
       THEN /\ MigrationFailed("unique")
            /\ NoFault
            /\ UNCHANGED mig_versions
       ELSE \/ /\ mig_versions' = Append(mig_versions, VersionRow(cur))
               /\ pc' = "history"
               /\ NoFault
               /\ UNCHANGED <<op, cur, count, ret, prev, anyErr>>
            \/ /\ Fault
               /\ MigrationFailed("record")
               /\ UNCHANGED mig_versions
    /\ UNCHANGED <<db, tables, executors, config,
                   dir, direct, migrations, applied, mig_history, schema, tx, pre, log, ran>>

\* Mutant: the history row is written without the SQL content.
History_NoContent ==
    /\ pc = "history"
    /\ \/ /\ mig_history' = Append(mig_history, HistoryRow(cur, <<>>))
          /\ MigrationSucceeded
          /\ NoFault
       \/ /\ Fault
          /\ MigrationFailed("history")
          /\ UNCHANGED mig_history
    /\ UNCHANGED <<db, tables, executors, config,
                   dir, direct, migrations, applied, mig_versions, schema, tx, pre, log, ran>>

\* database.RecordHistory(e.db, migration.ID, migration.Content, nil)
History ==
    /\ pc = "history"
    /\ \/ /\ mig_history' =
                Append(mig_history, HistoryRow(cur, MigrationByID(cur).Content))
          /\ MigrationSucceeded
          /\ NoFault
       \/ /\ Fault
          /\ MigrationFailed("history")
          /\ UNCHANGED mig_history
    /\ UNCHANGED <<db, tables, executors, config,
                   dir, direct, migrations, applied, mig_versions, schema, tx, pre, log, ran>>


\* ----------------------------------- ExecuteMigration, transactional branch
\* e.db.Begin()
Begin ==
    /\ pc = "begin"
    /\ \/ /\ tx' = [NoTx EXCEPT !.active = TRUE]
          /\ pc' = "txexec"
          /\ NoFault
          /\ UNCHANGED <<op, cur, count, ret, prev, anyErr>>
       \/ /\ Fault
          /\ MigrationFailed("begin")
          /\ UNCHANGED tx
    /\ UNCHANGED <<db, tables, executors, config,
                   dir, direct, migrations, applied, mig_versions, mig_history, schema,
                   pre, log, ran>>

\* Mutant: the batch is sent with e.db.Exec instead of tx.Exec, so it takes
\* effect outside the transaction.
TxExec_OutsideTx ==
    /\ pc = "txexec"
    /\ \/ /\ schema[cur] < MaxApply
          /\ schema' = [schema EXCEPT ![cur] = @ + 1]
          /\ ran' = Append(ran, cur)
          /\ pc' = "txrecord"
          /\ NoFault
          /\ UNCHANGED <<tx, op, cur, count, ret, prev, anyErr>>
       \/ /\ Fault
          /\ Rollback
          /\ MigrationFailed("exec")
          /\ UNCHANGED <<schema, ran>>
    /\ UNCHANGED <<db, tables, executors, config,
                   dir, direct, migrations, applied, mig_versions, mig_history,
                   pre, log>>

\* tx.Exec(migration.Content): the batch runs inside the transaction.
TxExec ==
    /\ pc = "txexec"
    /\ \/ /\ tx' = [tx EXCEPT !.stmts = @ \cup {cur}]
          /\ ran' = Append(ran, cur)
          /\ pc' = "txrecord"
          /\ NoFault
          /\ UNCHANGED <<op, cur, count, ret, prev, anyErr>>
       \/ /\ Fault
          /\ Rollback
          /\ MigrationFailed("exec")
          /\ UNCHANGED ran
    /\ UNCHANGED <<db, tables, executors, config,
                   dir, direct, migrations, applied, mig_versions, mig_history, schema,
                   pre, log>>

\* Mutant: RecordMigration is passed nil instead of tx, so the row is
\* committed on its own.
TxRecord_Direct ==
    /\ pc = "txrecord"
    /\ IF UniqueViolation(cur, mig_versions)
       THEN /\ Rollback
            /\ MigrationFailed("unique")
            /\ NoFault
            /\ UNCHANGED mig_versions
       ELSE \/ /\ mig_versions' = Append(mig_versions, VersionRow(cur))
               /\ pc' = "txhistory"
               /\ NoFault
               /\ UNCHANGED <<tx, op, cur, count, ret, prev, anyErr>>
            \/ /\ Fault
               /\ Rollback
               /\ MigrationFailed("record")
               /\ UNCHANGED mig_versions
    /\ UNCHANGED <<db, tables, executors, config,
                   dir, direct, migrations, applied, mig_history, schema,
                   pre, log, ran>>

\* database.RecordMigration(e.db, migration.ID, tx): the INSERT sees the
\* committed rows and the transaction's own.
TxRecord ==
    /\ pc = "txrecord"
    /\ IF UniqueViolation(cur, mig_versions \o tx.versions)
       THEN /\ Rollback
            /\ MigrationFailed("unique")
            /\ NoFault
       ELSE \/ /\ tx' = [tx EXCEPT !.versions = Append(@, VersionRow(cur))]
               /\ pc' = "txhistory"
               /\ NoFault
               /\ UNCHANGED <<op, cur, count, ret, prev, anyErr>>
            \/ /\ Fault
               /\ Rollback
               /\ MigrationFailed("record")
    /\ UNCHANGED <<db, tables, executors, config,
                   dir, direct, migrations, applied, mig_versions, mig_history, schema,
                   pre, log, ran>>

\* Mutant: RecordHistory is passed nil instead of tx, so the row is
\* committed on its own.
TxHistory_Direct ==
    /\ pc = "txhistory"
    /\ \/ /\ mig_history' =
                Append(mig_history, HistoryRow(cur, MigrationByID(cur).Content))
          /\ pc' = "commit"
          /\ NoFault
          /\ UNCHANGED <<tx, op, cur, count, ret, prev, anyErr>>
       \/ /\ Fault
          /\ Rollback
          /\ MigrationFailed("history")
          /\ UNCHANGED mig_history
    /\ UNCHANGED <<db, tables, executors, config,
                   dir, direct, migrations, applied, mig_versions, schema,
                   pre, log, ran>>

\* database.RecordHistory(e.db, migration.ID, migration.Content, tx)
TxHistory ==
    /\ pc = "txhistory"
    /\ \/ /\ tx' = [tx EXCEPT !.history =
                       Append(@, HistoryRow(cur, MigrationByID(cur).Content))]
          /\ pc' = "commit"
          /\ NoFault
          /\ UNCHANGED <<op, cur, count, ret, prev, anyErr>>
       \/ /\ Fault
          /\ Rollback
          /\ MigrationFailed("history")
    /\ UNCHANGED <<db, tables, executors, config,
                   dir, direct, migrations, applied, mig_versions, mig_history, schema,
                   pre, log, ran>>

\* Mutant: the history rows written in the transaction are lost at Commit.
Commit_LosesHistory ==
    /\ pc = "commit"
    /\ \/ /\ schema' = [i \in DOMAIN schema |->
                          IF i \in tx.stmts THEN schema[i] + 1 ELSE schema[i]]
          /\ mig_versions' = mig_versions \o tx.versions
          /\ mig_history' = mig_history
          /\ tx' = NoTx
          /\ MigrationSucceeded
          /\ NoFault
       \/ /\ Fault
          /\ tx' = NoTx
          /\ MigrationFailed("commit")
          /\ UNCHANGED <<mig_versions, mig_history, schema>>
    /\ UNCHANGED <<db, tables, executors, config,
                   dir, direct, migrations, applied, pre, log, ran>>

\* tx.Commit(): all of the transaction's writes become visible together; a
\* Commit that returns an error has committed nothing.
Commit ==
    /\ pc = "commit"
    /\ \/ /\ schema' = [i \in DOMAIN schema |->
                          IF i \in tx.stmts THEN schema[i] + 1 ELSE schema[i]]
          /\ mig_versions' = mig_versions \o tx.versions
          /\ mig_history' = mig_history \o tx.history
          /\ tx' = NoTx
          /\ MigrationSucceeded
          /\ NoFault
       \/ /\ Fault
          /\ tx' = NoTx
          /\ MigrationFailed("commit")
          /\ UNCHANGED <<mig_versions, mig_history, schema>>
    /\ UNCHANGED <<db, tables, executors, config,
                   dir, direct, migrations, applied, pre, log, ran>>

\* Mutant: the re-fetched list is not assigned to e.applied.
Refetch_KeepsCache ==
    /\ pc = "refetch"
    /\ \/ /\ NoFault
          /\ IF op = "next"
             THEN Done("none", TRUE, 0)
             ELSE /\ count' = count + 1
                  /\ pc' = "next"
                  /\ cur' = 0
                  /\ UNCHANGED <<op, ret, prev, anyErr>>
       \/ /\ Fault
          /\ Done("query", TRUE, IF op = "all" THEN count ELSE 0)
    /\ UNCHANGED <<db, tables, executors, config,
                   dir, direct, migrations, applied, mig_versions, mig_history, schema,
                   tx, pre, log, ran>>

\* Mutant: ExecuteAllMigrations' loop lacks count++.
Refetch_NoCount ==
    /\ pc = "refetch"
    /\ \/ /\ applied' = GetAppliedMigrations
          /\ NoFault
          /\ IF op = "next"
             THEN Done("none", TRUE, 0)
             ELSE /\ pc' = "next"
                  /\ cur' = 0
                  /\ UNCHANGED <<op, count, ret, prev, anyErr>>
       \/ /\ Fault
          /\ Done("query", TRUE, IF op = "all" THEN count ELSE 0)
          /\ UNCHANGED applied
    /\ UNCHANGED <<db, tables, executors, config,
                   dir, direct, migrations, mig_versions, mig_history, schema, tx,
                   pre, log, ran>>

\* Mutant: the new id is appended to the cached list instead of re-fetching.
Refetch_AppendsNewID ==
    /\ pc = "refetch"
    /\ \/ /\ applied' = Append(applied, VersionRow(cur))
          /\ NoFault
          /\ IF op = "next"
             THEN Done("none", TRUE, 0)
             ELSE /\ count' = count + 1
                  /\ pc' = "next"
                  /\ cur' = 0
                  /\ UNCHANGED <<op, ret, prev, anyErr>>
       \/ /\ Fault
          /\ Done("query", TRUE, IF op = "all" THEN count ELSE 0)
          /\ UNCHANGED applied
    /\ UNCHANGED <<db, tables, executors, config,
                   dir, direct, migrations, mig_versions, mig_history, schema, tx,
                   pre, log, ran>>

\* Mutant: the result of the re-fetch is assigned before its error is looked
\* at, so a failed re-fetch leaves the nil slice in e.applied.
Refetch_AssignsOnError ==
    /\ pc = "refetch"
    /\ \/ /\ applied' = GetAppliedMigrations
          /\ NoFault
          /\ IF op = "next"
             THEN Done("none", TRUE, 0)
             ELSE /\ count' = count + 1
                  /\ pc' = "next"
                  /\ cur' = 0
                  /\ UNCHANGED <<op, ret, prev, anyErr>>
       \/ /\ Fault
          /\ Done("query", TRUE, IF op = "all" THEN count ELSE 0)
          /\ applied' = <<>>
    /\ UNCHANGED <<db, tables, executors, config,
                   dir, direct, migrations, mig_versions, mig_history, schema, tx,
                   pre, log, ran>>

\* ------------------------------ ExecuteNextMigration after ExecuteMigration
\* database.GetAppliedMigrations(e.db): on error (true, err) is returned and
\* e.applied keeps its old value; ExecuteAllMigrations returns (count, err)
\* before count++.  On success e.applied is replaced and, in the loop of
\* ExecuteAllMigrations, count++ and the next iteration follow.
Refetch ==
    /\ pc = "refetch"
    /\ \/ /\ applied' = GetAppliedMigrations
          /\ NoFault
          /\ IF op = "next"
             THEN Done("none", TRUE, 0)
             ELSE /\ count' = count + 1
                  /\ pc' = "next"
                  /\ cur' = 0
                  /\ UNCHANGED <<op, ret, prev, anyErr>>
       \/ /\ Fault
          /\ Done("query", TRUE, IF op = "all" THEN count ELSE 0)
          /\ UNCHANGED applied
    /\ UNCHANGED <<db, tables, executors, config,
                   dir, direct, migrations, mig_versions, mig_history, schema, tx,
                   pre, log, ran>>

\* Mutant: Status drops the migrations it finds applied from the loaded list.
Status_DropsApplied ==
    /\ pc = "idle"
    /\ migrations' = GetPendingMigrations(migrations, GetAppliedMigrations)
    /\ \/ /\ applied' = GetAppliedMigrations
          /\ ret' = [op |-> "status", err |-> "none", executed |-> FALSE,
                     count |-> 0, applied |-> applied']
          /\ UNCHANGED anyErr
          /\ NoFault
       \/ /\ Fault
          /\ ret' = [op |-> "status", err |-> "query", executed |-> FALSE,
                     count |-> 0, applied |-> <<>>]
          /\ anyErr' = TRUE
          /\ UNCHANGED applied
    /\ prev' = Outcome(ret)
    /\ pre' = Snapshot
    /\ log' = <<>>
    /\ ran' = <<>>
    /\ UNCHANGED <<db, tables, executors, config,
                   dir, direct, mig_versions, mig_history, schema, tx, pc, op,
                   cur, count>>

\* Executor.Status(): one query; e.applied is replaced only on success, and
\* the call returns (e.migrations, e.applied, nil), or (nil, nil, err).
Status ==
    /\ pc = "idle"
    /\ \/ /\ applied' = GetAppliedMigrations
          /\ ret' = [op |-> "status", err |-> "none", executed |-> FALSE,
                     count |-> 0, applied |-> applied']
          /\ UNCHANGED anyErr
          /\ NoFault
       \/ /\ Fault
          /\ ret' = [op |-> "status", err |-> "query", executed |-> FALSE,
                     count |-> 0, applied |-> <<>>]
          /\ anyErr' = TRUE
          /\ UNCHANGED applied
    /\ prev' = Outcome(ret)
    /\ pre' = Snapshot
    /\ log' = <<>>
    /\ ran' = <<>>
    /\ UNCHANGED <<db, tables, executors, config,
                   dir, direct, migrations, mig_versions, mig_history, schema, tx, pc, op,
                   cur, count>>

\* --------------------------------------------------------- specifications
ExecuteMigrationStep ==
    \/ Exec
    \/ Record
    \/ History
    \/ Begin
    \/ TxExec
    \/ TxRecord
    \/ TxHistory
    \/ Commit

\* Every exported operation of the executor.
Next ==
    \/ CallExecuteMigration
    \/ CallExecuteNext
    \/ CallExecuteAll
    \/ ExecuteNextMigration
    \/ ExecuteMigrationStep
    \/ Refetch
    \/ Status

Spec == Init /\ [][Next]_vars

\* The operations the public Migrator reaches: MigrateUp, MigrateUpAll, Status.
NextEngine ==
    \/ CallExecuteNext
    \/ CallExecuteAll
    \/ ExecuteNextMigration
    \/ ExecuteMigrationStep
    \/ Refetch
    \/ Status

SpecEngine == InitEngine /\ [][NextEngine]_vars

\* A call starts only while no migration has reached the bound on the
\* executions of its statements: one call executes a migration at most once,
\* so no call is cut short by the bound.
CallWithinBound ==
    /\ \A i \in DOMAIN schema : schema[i] < MaxApply
    /\ (CallExecuteNext \/ CallExecuteAll)

NextEngineFair ==
    \/ CallWithinBound
    \/ ExecuteNextMigration
    \/ ExecuteMigrationStep
    \/ Refetch
    \/ Status

\* The engine's calls are sequential Go code over blocking database calls:
\* a call that has started takes its next step, every round trip returning
\* a result or an error.
SpecEngineFair ==
    /\ InitEngine
    /\ [][NextEngineFair]_vars
    /\ WF_vars(ExecuteNextMigration \/ ExecuteMigrationStep \/ Refetch)

\* ------------------------------------- status through the root-package Manager
\* Manager.Status(): returns (m.Executor.Migrations, m.Executor.Applied, nil)
\* as they are, without a query.
ManagerStatus ==
    /\ pc = "idle"
    /\ ret' = [op |-> "status", err |-> "none", executed |-> FALSE,
               count |-> 0, applied |-> applied]
    /\ prev' = Outcome(ret)
    /\ pre' = Snapshot
    /\ log' = <<>>
    /\ ran' = <<>>
    /\ UNCHANGED <<db, tables, executors, config,
                   dir, direct, migrations, applied, mig_versions, mig_history,
                   schema, tx, pc, op, cur, count, anyErr, faults>>

\* Another engine on the same database (a second run of the tool) applies a
\* migration between two calls of this engine: its transaction commits the
\* statement effects, the version row and the history row together.
OtherWriter ==
    /\ pc = "idle"
    /\ \E i \in DOMAIN schema :
          /\ ~UniqueViolation(i, mig_versions)
          /\ schema[i] < MaxApply
          /\ schema' = [schema EXCEPT ![i] = @ + 1]
          /\ mig_versions' = Append(mig_versions, VersionRow(i))
          /\ mig_history' =
                Append(mig_history, HistoryRow(i, MigrationByID(i).Content))
    /\ UNCHANGED <<db, tables, executors, config,
                   dir, direct, migrations, applied, tx, pc, op, cur, count, ret,
                   prev, pre, log, ran, anyErr, faults>>

\* MigrateUp, MigrateUpAll and Status of both facades, on a shared database.
NextStatus ==
    \/ NextEngine
    \/ ManagerStatus
    \/ OtherWriter

SpecStatus == Init /\ [][NextStatus]_vars


\* ------------------------------------------- pending() on arbitrary inputs
\* LoadMigrations' final sort: the files whose IDs are in S, ascending.
RECURSIVE SortedMigrations(_)
SortedMigrations(S) ==
    IF S = {} THEN <<>>
    ELSE LET last == CHOOSE x \in S : \A y \in S : y <= x
         IN  Append(SortedMigrations(S \ {last}), Migration(last, FALSE))

\* The version lists mig_versions can hold: no version twice, any order.
AppliedLists(ids) ==
    {s \in UNION {[1..n -> ids] : n \in 0..Cardinality(ids)} :
        \A j, k \in DOMAIN s : s[j] = s[k] => j = k}

\* An engine constructed on a database that earlier runs have migrated, with
\* a directory that holds any subset of the files 1..MaxPendingIDs.
InitPending ==
    /\ \E S \in SUBSET (1..MaxPendingIDs) :
       \E a \in AppliedLists(1..MaxPendingIDs) :
          /\ migrations = SortedMigrations(S)
          /\ mig_versions = [k \in DOMAIN a |-> VersionRow(a[k])]
          /\ mig_history = [k \in DOMAIN a |-> HistoryRow(a[k], <<"sql", a[k]>>)]
          /\ schema = [i \in S |-> IF i \in Range(a) THEN 1 ELSE 0]
    /\ applied = GetAppliedMigrations
    /\ dir = NoDir
    /\ tx = NoTx
    /\ pc = "idle"
    /\ op = "none"
    /\ cur = 0
    /\ count = 0
    /\ ret = NoRet
    /\ prev = [op |-> "none", failed |-> FALSE]
    /\ pre = Snapshot
    /\ log = <<>>
    /\ ran = <<>>
    /\ anyErr = FALSE
    /\ faults = 0
    /\ direct = 0
    /\ db = "open"
    /\ tables = Tables
    /\ executors = NoExecutors
    /\ config = NoConfig

\* A caller invokes Executor.GetPendingMigrations() and keeps the result.
CallGetPending ==
    /\ pc = "idle"
    /\ ret.op # "pending"
    /\ ret' = [op |-> "pending", err |-> "none", executed |-> FALSE,
               count |-> 0, pending |-> Pending]
    /\ UNCHANGED <<db, tables, executors, config,
                   dir, migrations, applied, mig_versions, mig_history, schema, tx,
                   pc, op, cur, count, prev, pre, log, ran, anyErr, faults,
                   direct>>

SpecPending == InitPending /\ [][CallGetPending]_vars

\* ================================================= internal/migrations: files
\* Strings are TLA+ strings; Char(s, k) is the k-th byte of s.
Char(s, k) == SubSeq(s, k, k)

Digits == "0123456789"

\* The bytes a migration id can hold, in ascending byte order.
NameBytes == "0123456789ABCDEFGHIJKLMNOPQRSTUVWXYZ_abcdefghijklmnopqrstuvwxyz"

\* The set of the bytes of s.
Bytes(s) == {Char(s, k) : k \in 1..Len(s)}

DigitSet == Bytes(Digits)

NameByteSet == Bytes(NameBytes)

\* Position of the one-byte string c in alphabet.
Position(alphabet, c) == CHOOSE k \in 1..Len(alphabet) : Char(alphabet, k) = c

\* The value of a decimal digit.
DigitValue == [c \in DigitSet |-> Position(Digits, c) - 1]

\* The rank of a byte among the bytes of ids.
ByteRank == [c \in NameByteSet |-> Position(NameBytes, c)]

\* \d
IsDigit(c) == c \in DigitSet

\* [a-zA-Z0-9_]
IsNameByte(c) == c \in NameByteSet

\* strings.HasSuffix
HasSuffix(s, suffix) ==
    /\ Len(s) >= Len(suffix)
    /\ SubSeq(s, Len(s) - Len(suffix) + 1, Len(s)) = suffix

\* strings.HasPrefix
HasPrefix(s, prefix) ==
    /\ Len(s) >= Len(prefix)
    /\ SubSeq(s, 1, Len(prefix)) = prefix

\* strings.Contains: substr starts at some byte of s.
Contains(s, substr) ==
    \E k \in 1..(Len(s) - Len(substr) + 1) :
        SubSeq(s, k, k + Len(substr) - 1) = substr

\* The < of Go strings: byte-wise, a proper prefix is smaller.
RECURSIVE StringLess(_, _)
StringLess(a, b) ==
    IF Len(b) = 0 THEN FALSE
    ELSE IF Len(a) = 0 THEN TRUE
    ELSE LET x == ByteRank[Char(a, 1)]
             y == ByteRank[Char(b, 1)]
         IN  IF x # y THEN x < y
             ELSE StringLess(SubSeq(a, 2, Len(a)), SubSeq(b, 2, Len(b)))

\* strings.ReplaceAll(name, " ", "_")
RECURSIVE ReplaceSpaces(_)
ReplaceSpaces(s) ==
    IF Len(s) = 0 THEN ""
    ELSE (IF Char(s, 1) = " " THEN "_" ELSE Char(s, 1))
            \o ReplaceSpaces(SubSeq(s, 2, Len(s)))

\* regexp `[^a-zA-Z0-9_]` .ReplaceAllString(s, "")
RECURSIVE RemoveSpecial(_)
RemoveSpecial(s) ==
    IF Len(s) = 0 THEN ""
    ELSE (IF IsNameByte(Char(s, 1)) THEN Char(s, 1) ELSE "")
            \o RemoveSpecial(SubSeq(s, 2, Len(s)))

\* The value of a string of decimal digits.
RECURSIVE Atoi(_)
Atoi(s) ==
    IF Len(s) = 0 THEN 0
    ELSE 10 * Atoi(SubSeq(s, 1, Len(s) - 1))
            + DigitValue[Char(s, Len(s))]

\* n in decimal, zero-padded to w digits.
RECURSIVE Pad(_, _)
Pad(n, w) ==
    IF w = 0 THEN ""
    ELSE Pad(n \div 10, w - 1) \o Char(Digits, (n % 10) + 1)

\* ---------------------------------------------------------------- the time
\* A time.Time at second granularity: <<year, month, day, hour, minute, second>>.
\* t.Format("2006_01_02_15_04_05")
FormatFilename(t) ==
    Pad(t[1], 4) \o "_" \o Pad(t[2], 2) \o "_" \o Pad(t[3], 2) \o "_"
        \o Pad(t[4], 2) \o "_" \o Pad(t[5], 2) \o "_" \o Pad(t[6], 2)

\* t.Format("2006-01-02 15:04:05")
FormatHeader(t) ==
    Pad(t[1], 4) \o "-" \o Pad(t[2], 2) \o "-" \o Pad(t[3], 2) \o " "
        \o Pad(t[4], 2) \o ":" \o Pad(t[5], 2) \o ":" \o Pad(t[6], 2)

IsLeap(year) == year % 4 = 0 /\ (year % 100 # 0 \/ year % 400 = 0)

DaysIn(month, year) ==
    IF month = 2 THEN (IF IsLeap(year) THEN 29 ELSE 28)
    ELSE IF month \in {4, 6, 9, 11} THEN 30
    ELSE 31

\* time.Parse("2006_01_02_15_04_05", dateStr) on a string of the shape the
\* pattern has matched: the fields are read, then range-checked.
ParseTime(dateStr) ==
    LET year   == Atoi(SubSeq(dateStr, 1, 4))
        month  == Atoi(SubSeq(dateStr, 6, 7))
        day    == Atoi(SubSeq(dateStr, 9, 10))
        hour   == Atoi(SubSeq(dateStr, 12, 13))
        minute == Atoi(SubSeq(dateStr, 15, 16))
        second == Atoi(SubSeq(dateStr, 18, 19))
    IN  [ok |-> /\ month >= 1 /\ month <= 12
                /\ day >= 1 /\ day <= DaysIn(month, year)
                /\ hour < 24 /\ minute < 60 /\ second < 60,
         t  |-> <<year, month, day, hour, minute, second>>]

\* Time.Before
RECURSIVE BeforeFrom(_, _, _)
BeforeFrom(t, u, k) ==
    IF k > Len(t) THEN FALSE
    ELSE IF t[k] # u[k] THEN t[k] < u[k]
    ELSE BeforeFrom(t, u, k + 1)

Before(t, u) == BeforeFrom(t, u, 1)

\* ------------------------------------------------------- migrationPattern
\* ^(\d{4}_\d{2}_\d{2}_\d{2}_\d{2}_\d{2})
DateShape(s) ==
    /\ Len(s) >= 19
    /\ \A k \in 1..19 :
          IF k \in {5, 8, 11, 14, 17} THEN Char(s, k) = "_" ELSE IsDigit(Char(s, k))

\* migrationPattern.FindStringSubmatch(filename): <<whole, date, name>>, or
\* the empty tuple (nil) when the name does not match.
FindStringSubmatch(filename) ==
    IF /\ Len(filename) >= 25
       /\ DateShape(filename)
       /\ Char(filename, 20) = "_"
       /\ HasSuffix(filename, ".sql")
       /\ \A k \in 21..(Len(filename) - 4) : IsNameByte(Char(filename, k))
    THEN <<filename, SubSeq(filename, 1, 19),
           SubSeq(filename, 21, Len(filename) - 4)>>
    ELSE <<>>

\* ---------------------------------------------------------- LoadMigrations
DisableTxToken == "-- disable-tx"

\* Mutant: the directive counts only at the very start of the file.
DisableTx_LeadingOnly(content) == HasPrefix(content, DisableTxToken)

\* disableTx := strings.Contains(string(content), "-- disable-tx")
DisableTx(content) == Contains(content, DisableTxToken)

\* Mutant: ties of the timestamp are left unbroken.
Less_NoTieBreak(a, b) == Before(a.CreatedAt, b.CreatedAt)

\* The less function handed to sort.Slice.
Less(a, b) ==
    IF a.CreatedAt = b.CreatedAt
    THEN StringLess(a.ID, b.ID)
    ELSE Before(a.CreatedAt, b.CreatedAt)

\* sort.Slice(migrations, less): the slice is rearranged by comparisons alone;
\* x is put behind the entries it is not less than.
RECURSIVE InsertSorted(_, _)
InsertSorted(sorted, x) ==
    IF Len(sorted) = 0 THEN <<x>>
    ELSE IF Less(x, sorted[Len(sorted)])
         THEN Append(InsertSorted(SubSeq(sorted, 1, Len(sorted) - 1), x),
                     sorted[Len(sorted)])
         ELSE Append(sorted, x)

RECURSIVE SortSlice(_)
SortSlice(ms) ==
    IF Len(ms) = 0 THEN <<>>
    ELSE InsertSorted(SortSlice(SubSeq(ms, 1, Len(ms) - 1)), ms[Len(ms)])

\* The Migration value built from one matching, well-dated file.
\* Mutant: the ID is the timestamp alone.
LoadedMigration_TimestampID(filename, matches, createdAt, content) ==
    [ID        |-> matches[2],
     Name      |-> matches[3],
     Filename  |-> filename,
     Content   |-> content,
     DisableTx |-> DisableTx(content),
     CreatedAt |-> createdAt]

\* Migration{...}: matches is <<whole match, dateStr, name>>.
LoadedMigration(filename, matches, createdAt, content) ==
    [ID        |-> matches[2] \o "_" \o matches[3],
     Name      |-> matches[3],
     Filename  |-> filename,
     Content   |-> content,
     DisableTx |-> DisableTx(content),
     CreatedAt |-> createdAt]

\* Mutant: a file with an invalid timestamp is skipped like a non-matching one.
RECURSIVE LoadLoop_SkipInvalid(_, _, _)
LoadLoop_SkipInvalid(entries, files, k) ==
    IF k = 0 THEN [err |-> "none", migrations |-> <<>>]
    ELSE LET r        == LoadLoop_SkipInvalid(entries, files, k - 1)
             filename == files[k]
             matches  == FindStringSubmatch(filename)
             parsed   == ParseTime(matches[2])
         IN  IF r.err # "none" THEN r
             ELSE IF entries[filename].IsDir \/ ~HasSuffix(filename, ".sql") THEN r
             ELSE IF matches = <<>> THEN r
             ELSE IF ~parsed.ok THEN r
             ELSE IF ~entries[filename].Readable THEN [r EXCEPT !.err = "read"]
             ELSE [r EXCEPT !.migrations =
                      Append(@, LoadedMigration(filename, matches, parsed.t,
                                                entries[filename].Content))]

\* Mutant: every file is read before its name is looked at.
RECURSIVE LoadLoop_ReadFirst(_, _, _)
LoadLoop_ReadFirst(entries, files, k) ==
    IF k = 0 THEN [err |-> "none", migrations |-> <<>>]
    ELSE LET r        == LoadLoop_ReadFirst(entries, files, k - 1)
             filename == files[k]
             matches  == FindStringSubmatch(filename)
             parsed   == ParseTime(matches[2])
         IN  IF r.err # "none" THEN r
             ELSE IF entries[filename].IsDir THEN r
             ELSE IF ~entries[filename].Readable THEN [r EXCEPT !.err = "read"]
             ELSE IF ~HasSuffix(filename, ".sql") THEN r
             ELSE IF matches = <<>> THEN r
             ELSE IF ~parsed.ok THEN [r EXCEPT !.err = "parse"]
             ELSE [r EXCEPT !.migrations =
                      Append(@, LoadedMigration(filename, matches, parsed.t,
                                                entries[filename].Content))]

\* The loop over the entries ReadDir returned, through the first k of them:
\* it ends at the first error.
RECURSIVE LoadLoop(_, _, _)
LoadLoop(entries, files, k) ==
    IF k = 0 THEN [err |-> "none", migrations |-> <<>>]
    ELSE LET r        == LoadLoop(entries, files, k - 1)
             filename == files[k]
             matches  == FindStringSubmatch(filename)
             parsed   == ParseTime(matches[2])
         IN  IF r.err # "none" THEN r
             ELSE IF entries[filename].IsDir \/ ~HasSuffix(filename, ".sql") THEN r
             ELSE IF matches = <<>> THEN r
             ELSE IF ~parsed.ok THEN [r EXCEPT !.err = "parse"]
             ELSE IF ~entries[filename].Readable THEN [r EXCEPT !.err = "read"]
             ELSE [r EXCEPT !.migrations =
                      Append(@, LoadedMigration(filename, matches, parsed.t,
                                                entries[filename].Content))]

\* LoadMigrations(directory), files being the order in which ReadDir lists the
\* entries: (migrations, nil), or (nil, err).
LoadMigrations(directory, files) ==
    IF ~directory.exists THEN [err |-> "notexist", migrations |-> <<>>]
    ELSE LET r == LoadLoop(directory.entries, files, Len(files))
         IN  IF r.err # "none" THEN [err |-> r.err, migrations |-> <<>>]
             ELSE [err |-> "none", migrations |-> SortSlice(r.migrations)]

\* The orders in which the entries of a directory can be listed.
Enumerations(directory) ==
    LET names == DOMAIN directory.entries
    IN  {f \in [1..Cardinality(names) -> names] :
            \A j, k \in DOMAIN f : f[j] = f[k] => j = k}

\* ----------------------------------------------------- CreateMigrationFile
\* sanitizedName
Sanitize(name) == RemoveSpecial(ReplaceSpaces(name))

\* The template written to a new file.
Template(sanitizedName, createdAt) ==
    "-- Migration: " \o sanitizedName \o "\n"
        \o "-- Created at: " \o FormatHeader(createdAt) \o "\n"
        \o "-- \n"
        \o "-- Note: \n"
        \o "-- Add \"-- disable-tx\" anywhere in this file to disable transaction wrapping.\n"
        \o "\n"
        \o "-- Your SQL goes here\n"

File(content) == [IsDir |-> FALSE, Content |-> content, Readable |-> TRUE]

\* A file the process has no permission to read.
UnreadableFile(content) == [File(content) EXCEPT !.Readable = FALSE]

Subdirectory == [IsDir |-> TRUE, Content |-> "", Readable |-> TRUE]

\* The directory with one more (or one replaced) entry.
WithEntry(directory, filename, entry) ==
    [exists  |-> TRUE,
     entries |-> [f \in DOMAIN directory.entries \cup {filename} |->
                     IF f = filename THEN entry ELSE directory.entries[f]]]

\* ------------------------------------------- load and create on a directory
MaxLoadEntries == 3     \* SpecLoad: the directory holds at most this many entries
MaxRunEntries == 2      \* SpecRun: the directory holds at most this many entries
MaxCreateInitial == 1   \* SpecCreate: the directory starts with at most this many
MaxEntries == 2         \* SpecCreate: create adds files while it holds fewer

\* What a migrations directory may hold before the tool touches it.
CandidateEntries ==
    [f \in {"2023_01_01_10_00_00_create_users.sql",
            "2023_01_02_10_00_00_add_email.sql",
            "2023_01_01_10_00_00_Index.sql",
            "2022_12_31_23_59_59_seed.sql",
            "2023_13_01_10_00_00_bad.sql",
            "2023_02_29_10_00_00_secret.sql",
            "invalid_migration.sql",
            "2023_01_04_10_00_00_archive.sql",
            "2023_01_01_00_00_00_test.txt"} |->
        CASE f = "2023_01_01_10_00_00_create_users.sql" ->
                File("CREATE TABLE users (id SERIAL PRIMARY KEY, name TEXT);")
          [] f = "2023_01_02_10_00_00_add_email.sql" ->
                File("--disable-tx\nALTER TABLE users ADD COLUMN email TEXT;")
          [] f = "2023_01_01_10_00_00_Index.sql" ->
                File("CREATE INDEX CONCURRENTLY i ON users(email); -- disable-tx")
          [] f = "2022_12_31_23_59_59_seed.sql" ->
                File("-- disable-tx\nINSERT INTO users (name) VALUES ('a');")
          [] f = "2023_13_01_10_00_00_bad.sql" -> File("SELECT 1;")
          [] f = "2023_02_29_10_00_00_secret.sql" -> UnreadableFile("SELECT 1;")
          [] f = "invalid_migration.sql" -> UnreadableFile("-- disable-tx")
          [] f = "2023_01_04_10_00_00_archive.sql" -> Subdirectory
          [] f = "2023_01_01_00_00_00_test.txt" -> File("Test content")]

\* The names handed to create.
CandidateNames == {"Add Users!", "Add_Users", "!?"}

\* The instants time.Now() can return during the calls.
Clock == {<<2025, 4, 6, 14, 30, 0>>, <<2025, 4, 6, 14, 30, 1>>}

\* Nothing is constructed yet: there is a directory with at most maxEntries
\* entries, or none, and an empty database.
Unconstructed(maxEntries) ==
    /\ \/ dir = [exists |-> FALSE, entries |-> <<>>]
       \/ \E names \in SUBSET (DOMAIN CandidateEntries) :
             /\ Cardinality(names) <= maxEntries
             /\ dir = [exists |-> TRUE,
                       entries |-> [f \in names |-> CandidateEntries[f]]]
    /\ migrations = <<>>
    /\ schema = <<>>
    /\ applied = <<>>
    /\ mig_versions = <<>>
    /\ mig_history = <<>>
    /\ tx = NoTx
    /\ pc = "idle"
    /\ op = "none"
    /\ cur = 0
    /\ count = 0
    /\ ret = NoRet
    /\ prev = [op |-> "none", failed |-> FALSE]
    /\ pre = Snapshot
    /\ log = <<>>
    /\ ran = <<>>
    /\ anyErr = FALSE
    /\ faults = 0
    /\ direct = 0
    /\ executors = NoExecutors
    /\ config = NoConfig

\* LoadMigrations and CreateMigrationFile need no engine and no database.
InitLoad ==
    /\ Unconstructed(MaxLoadEntries)
    /\ db = "nil"
    /\ tables = {}

\* New has connected and created the tables; loading is its last step.
InitRun ==
    /\ Unconstructed(MaxRunEntries)
    /\ db = "open"
    /\ tables = Tables

InitCreate ==
    /\ Unconstructed(MaxCreateInitial)
    /\ db = "nil"
    /\ tables = {}

\* LoadMigrations(directory) as executor.New calls it: the result becomes
\* Executor.migrations; on an error there is no list.  files is the order in
\* which ReadDir lists the entries.
CallLoadMigrations ==
    /\ pc = "idle"
    /\ \E files \in Enumerations(dir) :
          LET r == LoadMigrations(dir, files)
          IN  /\ migrations' = r.migrations
              /\ schema' = [i \in {r.migrations[k].ID : k \in DOMAIN r.migrations} |->
                               IF i \in DOMAIN schema THEN schema[i] ELSE 0]
              /\ ret' = [op |-> "load", err |-> r.err, executed |-> FALSE,
                         count |-> 0]
    /\ pre' = Snapshot
    /\ log' = <<>>
    /\ ran' = <<>>
    /\ UNCHANGED <<db, tables, executors, config,
                   dir, direct, applied, mig_versions, mig_history, tx, pc, op,
                   cur, count, prev, anyErr, faults>>

\* Mutant: the file is written without looking for an existing one.
CallCreateMigrationFile_Overwrite ==
    /\ pc = "idle"
    /\ \E name \in CandidateNames, now \in Clock, later \in Clock :
          LET sanitizedName == Sanitize(name)
              filename == FormatFilename(now) \o "_" \o sanitizedName \o ".sql"
          IN  /\ ~Before(later, now)
              /\ (filename \notin DOMAIN dir.entries
                    => Cardinality(DOMAIN dir.entries) < MaxEntries)
              /\ dir' = WithEntry(dir, filename,
                                  File(Template(sanitizedName, later)))
              /\ ret' = [op |-> "create", err |-> "none", executed |-> FALSE,
                         count |-> 0, name |-> name, now |-> now,
                         filename |-> filename]
    /\ pre' = Snapshot
    /\ log' = <<>>
    /\ ran' = <<>>
    /\ UNCHANGED <<db, tables, executors, config,
                   direct, migrations, applied, mig_versions, mig_history,
                   schema, tx, pc, op, cur, count, prev, anyErr, faults>>

\* CreateMigrationFile(directory, name): now is the instant stamped into the
\* filename, later the one written into the header.  The call returns
\* (filename, nil) or ("", err).
CallCreateMigrationFile ==
    /\ pc = "idle"
    /\ \E name \in CandidateNames, now \in Clock, later \in Clock :
          LET sanitizedName == Sanitize(name)
              filename == FormatFilename(now) \o "_" \o sanitizedName \o ".sql"
          IN  /\ ~Before(later, now)
              /\ IF filename \in DOMAIN dir.entries
                 THEN /\ dir' = dir
                      /\ ret' = [op |-> "create", err |-> "exists",
                                 executed |-> FALSE, count |-> 0,
                                 name |-> name, now |-> now, filename |-> ""]
                 ELSE /\ Cardinality(DOMAIN dir.entries) < MaxEntries
                      /\ dir' = WithEntry(dir, filename,
                                          File(Template(sanitizedName, later)))
                      /\ ret' = [op |-> "create", err |-> "none",
                                 executed |-> FALSE, count |-> 0,
                                 name |-> name, now |-> now,
                                 filename |-> filename]
    /\ pre' = Snapshot
    /\ log' = <<>>
    /\ ran' = <<>>
    /\ UNCHANGED <<db, tables, executors, config,
                   direct, migrations, applied, mig_versions, mig_history,
                   schema, tx, pc, op, cur, count, prev, anyErr, faults>>

\* load on any directory.
SpecLoad == InitLoad /\ [][CallLoadMigrations]_vars

\* create and load, in any order.
NextCreate ==
    \/ CallCreateMigrationFile
    \/ CallLoadMigrations

SpecCreate == InitCreate /\ [][NextCreate]_vars

\* The directory is loaded and loaded migrations are executed.
NextRun ==
    \/ CallLoadMigrations
    \/ CallExecuteMigration
    \/ ExecuteMigrationStep

SpecRun == InitRun /\ [][NextRun]_vars

\* ------------------------------------------------ constructing the engine
MaxNewEntries == 2      \* SpecNew: the directory holds at most this many entries

\* The database as the statements of InitializeTables see it.
Database == [tables |-> tables, versions |-> mig_versions,
             history |-> mig_history]

\* Mutant: the table is dropped and created again.
CreateVersionTable_Replace(d) ==
    [d EXCEPT !.tables = @ \cup {"mig_versions"}, !.versions = <<>>]

\* CreateVersionTableSQL: CREATE TABLE IF NOT EXISTS mig_versions.
CreateVersionTable(d) ==
    IF "mig_versions" \in d.tables
    THEN d
    ELSE [d EXCEPT !.tables = @ \cup {"mig_versions"}, !.versions = <<>>]

\* CreateHistoryTableSQL: CREATE TABLE IF NOT EXISTS mig_history.
CreateHistoryTable(d) ==
    IF "mig_history" \in d.tables
    THEN d
    ELSE [d EXCEPT !.tables = @ \cup {"mig_history"}, !.history = <<>>]

\* InitializeTables(db): the two statements in turn; failed names the
\* statement whose round trip returns an error ("none": neither does).
InitializeTables(d, failed) ==
    IF failed = "versions"
    THEN [err |-> "versions", d |-> d]
    ELSE LET created == CreateVersionTable(d)
         IN  IF failed = "history"
             THEN [err |-> "history", d |-> created]
             ELSE [err |-> "none", d |-> CreateHistoryTable(created)]

\* A caller invokes database.InitializeTables on a connection of its own.
CallInitializeTables ==
    /\ pc = "idle"
    /\ \E failed \in {"none", "versions", "history"} :
          LET r == InitializeTables(Database, failed)
          IN  /\ IF failed = "none" THEN NoFault ELSE Fault
              /\ tables' = r.d.tables
              /\ mig_versions' = r.d.versions
              /\ mig_history' = r.d.history
              /\ ret' = [op |-> "init", err |-> r.err, executed |-> FALSE,
                         count |-> 0, injected |-> (failed # "none"),
                         before |-> tables]
    /\ prev' = Outcome(ret)
    /\ pre' = Snapshot
    /\ log' = <<>>
    /\ ran' = <<>>
    /\ UNCHANGED <<db, executors, config, dir, direct, migrations, applied,
                   schema, tx, pc, op, cur, count, anyErr>>

\* What New returns and leaves behind when it fails after connecting: the
\* connection is closed and there is no engine.
NewFailed(err, d) ==
    /\ db' = "nil"
    /\ tables' = d.tables
    /\ mig_versions' = d.versions
    /\ mig_history' = d.history
    /\ ret' = [op |-> "new", err |-> err, executed |-> FALSE, count |-> 0]
    /\ UNCHANGED <<migrations, applied, schema>>

\* Mutant: the engine is returned although loading failed.
New_IgnoresLoadError ==
    /\ pc = "idle"
    /\ db = "nil"
    /\ \E files \in Enumerations(dir) :
          LET r == LoadMigrations(dir, files)
              d == InitializeTables(Database, "none").d
          IN  /\ NoFault
              /\ db' = "open"
              /\ tables' = d.tables
              /\ mig_versions' = d.versions
              /\ mig_history' = d.history
              /\ applied' = d.versions
              /\ migrations' = r.migrations
              /\ schema' = [i \in {r.migrations[k].ID :
                                      k \in DOMAIN r.migrations} |->
                               IF i \in DOMAIN schema THEN schema[i] ELSE 0]
              /\ ret' = [op |-> "new", err |-> r.err, executed |-> FALSE,
                         count |-> 0]
    /\ pre' = Snapshot
    /\ log' = <<>>
    /\ ran' = <<>>
    /\ UNCHANGED <<executors, config, dir, direct, tx, pc, op, cur, count,
                   prev, anyErr>>

\* executor.New(cfg): Connect, InitializeTables, GetAppliedMigrations and
\* LoadMigrations in turn; the first error ends the construction.  failed
\* names the database round trip that returns an error.
New ==
    /\ pc = "idle"
    /\ db = "nil"
    /\ \E failed \in {"none", "connect", "versions", "history", "query"} :
       \E files \in Enumerations(dir) :
          LET init == InitializeTables(Database,
                          IF failed \in {"versions", "history"}
                          THEN failed ELSE "none")
              r == LoadMigrations(dir, files)
          IN  /\ IF failed = "none" THEN NoFault ELSE Fault
              /\ CASE failed = "connect" ->
                        /\ ret' = [op |-> "new", err |-> "connect",
                                   executed |-> FALSE, count |-> 0]
                        /\ UNCHANGED <<db, tables, mig_versions, mig_history,
                                       migrations, applied, schema>>
                   [] failed \in {"versions", "history"} ->
                        NewFailed("init", init.d)
                   [] failed = "query" ->
                        NewFailed("query", init.d)
                   [] failed = "none" /\ r.err # "none" ->
                        NewFailed(r.err, init.d)
                   [] OTHER ->
                        /\ db' = "open"
                        /\ tables' = init.d.tables
                        /\ mig_versions' = init.d.versions
                        /\ mig_history' = init.d.history
                        /\ applied' = init.d.versions
                        /\ migrations' = r.migrations
                        /\ schema' = [i \in {r.migrations[k].ID :
                                                k \in DOMAIN r.migrations} |->
                                         IF i \in DOMAIN schema
                                         THEN schema[i] ELSE 0]
                        /\ ret' = [op |-> "new", err |-> "none",
                                   executed |-> FALSE, count |-> 0]
    /\ pre' = Snapshot
    /\ log' = <<>>
    /\ ran' = <<>>
    /\ UNCHANGED <<executors, config, dir, direct, tx, pc, op, cur, count,
                   prev, anyErr>>

\* What an earlier run of the tool may have left in the database.
EarlierRuns ==
    {[tables |-> {}, versions |-> <<>>, history |-> <<>>],
     [tables |-> Tables, versions |-> <<>>, history |-> <<>>],
     [tables |-> Tables,
      versions |-> <<VersionRow("2023_01_01_10_00_00_create_users")>>,
      history |-> <<HistoryRow("2023_01_01_10_00_00_create_users",
                     CandidateEntries["2023_01_01_10_00_00_create_users.sql"].Content)>>]}

\* What the directory may hold when the engine is constructed: the entries
\* above and a migration file that cannot be read.
NewEntries ==
    [f \in DOMAIN CandidateEntries \cup {"2023_01_03_10_00_00_locked.sql"} |->
        IF f = "2023_01_03_10_00_00_locked.sql"
        THEN UnreadableFile("SELECT 1;")
        ELSE CandidateEntries[f]]

\* No engine yet: a directory, or none, and the database of an earlier run.
InitNew ==
    /\ \/ dir = [exists |-> FALSE, entries |-> <<>>]
       \/ \E names \in SUBSET (DOMAIN NewEntries) :
             /\ Cardinality(names) <= MaxNewEntries
             /\ dir = [exists |-> TRUE,
                       entries |-> [f \in names |-> NewEntries[f]]]
    /\ \E d \in EarlierRuns :
          /\ tables = d.tables
          /\ mig_versions = d.versions
          /\ mig_history = d.history
          /\ schema = [i \in Range(Versions(d.versions)) |-> 1]
    /\ db = "nil"
    /\ migrations = <<>>
    /\ applied = <<>>
    /\ tx = NoTx
    /\ pc = "idle"
    /\ op = "none"
    /\ cur = 0
    /\ count = 0
    /\ ret = NoRet
    /\ prev = [op |-> "none", failed |-> FALSE]
    /\ pre = Snapshot
    /\ log = <<>>
    /\ ran = <<>>
    /\ anyErr = FALSE
    /\ faults = 0
    /\ direct = 0
    /\ executors = NoExecutors
    /\ config = NoConfig

NextNew ==
    \/ New
    \/ CallInitializeTables

SpecNew == InitNew /\ [][NextNew]_vars

\* ------------------------------------- two engines working on one store
MaxConcurrentMigrations == 2   \* SpecConcurrent: files loaded by both engines

Instances == {1, 2}

\* One engine between calls: nothing running, no transaction, no result.
IdleExecutor == [pc |-> "idle", cur |-> 0, tx |-> NoTx, err |-> "none"]

\* Both engines were constructed on the same directory and the same empty
\* store: each has loaded the same transactional migrations and cached an
\* empty applied list.
InitConcurrent ==
    /\ \E n \in 1..MaxConcurrentMigrations :
          /\ migrations = [i \in 1..n |-> Migration(i, FALSE)]
          /\ schema = [i \in 1..n |-> 0]
    /\ executors = [e \in Instances |-> IdleExecutor]
    /\ applied = <<>>
    /\ mig_versions = <<>>
    /\ mig_history = <<>>
    /\ tx = NoTx
    /\ pc = "idle"
    /\ op = "none"
    /\ cur = 0
    /\ count = 0
    /\ ret = NoRet
    /\ prev = [op |-> "none", failed |-> FALSE]
    /\ dir = NoDir
    /\ pre = Snapshot
    /\ log = <<>>
    /\ ran = <<>>
    /\ anyErr = FALSE
    /\ faults = 0
    /\ direct = 0
    /\ db = "open"
    /\ tables = Tables
    /\ config = NoConfig

\* What none of the steps of the two engines changes.
ConcurrentFrame ==
    UNCHANGED <<migrations, applied, tx, pc, op, cur, count, ret, prev, pre,
                log, ran, anyErr, direct, dir, db, tables, config>>

\* Engine e's ExecuteMigration returns err; an open transaction is gone.
Returns(e, err) ==
    executors' = [executors EXCEPT ![e] =
                     [pc |-> "done", cur |-> @.cur, tx |-> NoTx, err |-> err]]

\* Engine e invokes ExecuteMigration(m) on a migration pending in its cache.
ConcurrentCall(e) ==
    /\ executors[e].pc = "idle"
    /\ \E m \in Range(Pending) :
          /\ ~m.DisableTx
          /\ executors' = [executors EXCEPT ![e].pc = "begin", ![e].cur = m.ID]
    /\ NoFault
    /\ UNCHANGED <<mig_versions, mig_history, schema>>
    /\ ConcurrentFrame

\* e.db.Begin() of engine e
ConcurrentBegin(e) ==
    /\ executors[e].pc = "begin"
    /\ \/ /\ NoFault
          /\ executors' = [executors EXCEPT ![e].pc = "txexec",
                                            ![e].tx.active = TRUE]
       \/ /\ Fault
          /\ Returns(e, "begin")
    /\ UNCHANGED <<mig_versions, mig_history, schema>>
    /\ ConcurrentFrame

\* tx.Exec(migration.Content) of engine e
ConcurrentTxExec(e) ==
    /\ executors[e].pc = "txexec"
    /\ \/ /\ NoFault
          /\ executors' = [executors EXCEPT
                              ![e].pc = "txrecord",
                              ![e].tx.stmts = @ \cup {executors[e].cur}]
       \/ /\ Fault
          /\ Returns(e, "exec")
    /\ UNCHANGED <<mig_versions, mig_history, schema>>
    /\ ConcurrentFrame

\* The INSERT of version by engine e meets a row of the same version that
\* another open transaction has written and not yet committed: the unique
\* index makes it wait for the end of that transaction.
WaitsForOther(e, version) ==
    \E o \in Instances \ {e} :
        UniqueViolation(version, executors[o].tx.versions)

\* database.RecordMigration(e.db, migration.ID, tx) of engine e
ConcurrentTxRecord(e) ==
    /\ executors[e].pc = "txrecord"
    /\ ~WaitsForOther(e, executors[e].cur)
    /\ IF UniqueViolation(executors[e].cur,
                          mig_versions \o executors[e].tx.versions)
       THEN /\ NoFault
            /\ Returns(e, "unique")
       ELSE \/ /\ NoFault
               /\ executors' = [executors EXCEPT
                                   ![e].pc = "txhistory",
                                   ![e].tx.versions =
                                       Append(@, VersionRow(executors[e].cur))]
            \/ /\ Fault
               /\ Returns(e, "record")
    /\ UNCHANGED <<mig_versions, mig_history, schema>>
    /\ ConcurrentFrame

\* database.RecordHistory(e.db, migration.ID, migration.Content, tx) of engine e
ConcurrentTxHistory(e) ==
    /\ executors[e].pc = "txhistory"
    /\ \/ /\ NoFault
          /\ executors' = [executors EXCEPT
                              ![e].pc = "commit",
                              ![e].tx.history =
                                  Append(@, HistoryRow(executors[e].cur,
                                      MigrationByID(executors[e].cur).Content))]
       \/ /\ Fault
          /\ Returns(e, "history")
    /\ UNCHANGED <<mig_versions, mig_history, schema>>
    /\ ConcurrentFrame

\* tx.Commit() of engine e
ConcurrentCommit(e) ==
    /\ executors[e].pc = "commit"
    /\ \/ /\ NoFault
          /\ schema' = [i \in DOMAIN schema |->
                          IF i \in executors[e].tx.stmts
                          THEN schema[i] + 1 ELSE schema[i]]
          /\ mig_versions' = mig_versions \o executors[e].tx.versions
          /\ mig_history' = mig_history \o executors[e].tx.history
          /\ Returns(e, "none")
       \/ /\ Fault
          /\ Returns(e, "commit")
          /\ UNCHANGED <<mig_versions, mig_history, schema>>
    /\ ConcurrentFrame

NextConcurrent ==
    \E e \in Instances :
        \/ ConcurrentCall(e)
        \/ ConcurrentBegin(e)
        \/ ConcurrentTxExec(e)
        \/ ConcurrentTxRecord(e)
        \/ ConcurrentTxHistory(e)
        \/ ConcurrentCommit(e)

SpecConcurrent == InitConcurrent /\ [][NextConcurrent]_vars

\* -------------------------------------------------------- closing the engine
\* Executor.Close(): e.db.Close().  The engine and its cached lists remain.
Close ==
    /\ pc = "idle"
    /\ db = "open"
    /\ db' = "closed"
    /\ ret' = [op |-> "close", err |-> "none", executed |-> FALSE, count |-> 0]
    /\ prev' = Outcome(ret)
    /\ pre' = Snapshot
    /\ log' = <<>>
    /\ ran' = <<>>
    /\ UNCHANGED <<tables, executors, config, dir, direct, migrations, applied,
                   mig_versions, mig_history, schema, tx, pc, op, cur, count,
                   anyErr, faults>>

\* The engine is used and, at some point, closed and used further.
NextClose ==
    \/ NextEngine
    \/ Close

SpecClose == Init /\ [][NextClose]_vars

\* ------------------------------------------------ internal/config: Load
DefaultPort == 5432

\* The database fields that are strings, and their environment variables.
StringFields == {"host", "name", "user", "password", "sslmode"}

EnvName ==
    [f \in StringFields \cup {"port"} |->
        CASE f = "host" -> "DATABASE_HOST"
          [] f = "port" -> "DATABASE_PORT"
          [] f = "name" -> "DATABASE_NAME"
          [] f = "user" -> "DATABASE_USER"
          [] f = "password" -> "DATABASE_PASSWORD"
          [] f = "sslmode" -> "DATABASE_SSLMODE"]

\* The bytes fmt's scanner accepts as digits of a %d operand.
DecimalDigits == Bytes("0123456789_")

\* The first position from k on whose byte is not in set; Len(s) + 1 if none.
SkipWhile(s, set, k) ==
    CHOOSE j \in k..(Len(s) + 1) :
        /\ \A i \in k..(j - 1) : Char(s, i) \in set
        /\ j = Len(s) + 1 \/ Char(s, j) \notin set

\* fmt.Sscanf(str, "%d", &port): leading spaces are skipped, a sign is
\* accepted, then the longest run of digit bytes is taken and handed to
\* strconv.ParseInt(tok, 10, 64); what follows the run is not looked at.
Sscanf(str) ==
    LET start  == SkipWhile(str, {" "}, 1)
        signed == start <= Len(str) /\ Char(str, start) \in {"+", "-"}
        first  == IF signed THEN start + 1 ELSE start
        stop   == SkipWhile(str, DecimalDigits, first)
        tok    == SubSeq(str, first, stop - 1)
    IN  IF stop = first
        THEN [err |-> "expected integer", port |-> 0]
        ELSE IF \E k \in 1..Len(tok) : Char(tok, k) = "_"
        THEN [err |-> "invalid syntax", port |-> 0]
        ELSE [err |-> "none",
              port |-> IF signed /\ Char(str, start) = "-"
                       THEN 0 - Atoi(tok) ELSE Atoi(tok)]

\* The environment overrides of Load, applied to the unmarshalled file.
Override(file, env) ==
    [f \in DOMAIN file |->
        IF f = "port"
        THEN IF env["DATABASE_PORT"] # ""
                /\ Sscanf(env["DATABASE_PORT"]).err = "none"
             THEN Sscanf(env["DATABASE_PORT"]).port
             ELSE file.port
        ELSE IF env[EnvName[f]] # "" THEN env[EnvName[f]] ELSE file[f]]

\* Validate(config): required fields and defaults.
Validate(c) ==
    IF c.host = "" THEN [err |-> "host", config |-> c]
    ELSE IF c.name = "" THEN [err |-> "name", config |-> c]
    ELSE IF c.user = "" THEN [err |-> "user", config |-> c]
    ELSE [err |-> "none",
          config |-> [c EXCEPT !.port = IF @ = 0 THEN DefaultPort ELSE @,
                               !.sslmode = IF @ = "" THEN "disable" ELSE @]]

\* Load(configPath) on a readable, well-formed file.
Load(file, env) == Validate(Override(file, env))

\* The database sections a config file may hold; "" and 0 are what an absent
\* key unmarshals to.
ConfigFiles ==
    [host : {"originalhost"}, port : {1234, 0}, name : {"originaldb", ""},
     user : {"originaluser"}, password : {"originalpass", ""},
     sslmode : {"require", ""}]

\* What the environment may hold; "" stands for unset or empty.
Environments ==
    {env \in [{EnvName[f] : f \in DOMAIN EnvName} ->
                 {"", "envhost", "envdb", "envuser", "envpass", "disable",
                  "5678", "invalid", "5433abc", " 5433", "-1", "0", "+80",
                  "12_34", "x80"}] :
        /\ env["DATABASE_HOST"] \in {"", "envhost"}
        /\ env["DATABASE_NAME"] \in {"", "envdb"}
        /\ env["DATABASE_USER"] \in {"", "envuser"}
        /\ env["DATABASE_PASSWORD"] \in {"", "envpass"}
        /\ env["DATABASE_SSLMODE"] \in {"", "disable"}
        /\ env["DATABASE_PORT"] \in {"", "5678", "invalid", "5433abc",
                                     " 5433", "-1", "0", "+80", "12_34",
                                     "x80"}}

\* A config file and an environment; Load has not been called.
InitConfig ==
    /\ \E file \in ConfigFiles, env \in Environments :
          config = [file |-> file, env |-> env, called |-> FALSE,
                    err |-> "none", loaded |-> file]
    /\ dir = NoDir
    /\ db = "nil"
    /\ tables = {}
    /\ executors = NoExecutors
    /\ migrations = <<>>
    /\ schema = <<>>
    /\ applied = <<>>
    /\ mig_versions = <<>>
    /\ mig_history = <<>>
    /\ tx = NoTx
    /\ pc = "idle"
    /\ op = "none"
    /\ cur = 0
    /\ count = 0
    /\ ret = NoRet
    /\ prev = [op |-> "none", failed |-> FALSE]
    /\ pre = Snapshot
    /\ log = <<>>
    /\ ran = <<>>
    /\ anyErr = FALSE
    /\ faults = 0
    /\ direct = 0

\* A caller invokes config.Load(configPath).
CallLoad ==
    /\ ~config.called
    /\ LET r == Load(config.file, config.env)
       IN  config' = [config EXCEPT !.called = TRUE, !.err = r.err,
                                    !.loaded = r.config]
    /\ UNCHANGED <<migrations, applied, mig_versions, mig_history, schema, tx,
                   pc, op, cur, count, ret, prev, pre, log, ran, anyErr,
                   faults, direct, dir, db, tables, executors>>

SpecConfig == InitConfig /\ [][CallLoad]_vars

\* --------------------------------- pending between the calls of an engine
\* Mutant: the applied list is fetched from the store before filtering.
CallPending_Queries ==
    /\ pc = "idle"
    /\ applied' = GetAppliedMigrations
    /\ ret' = [op |-> "pending", err |-> "none", executed |-> FALSE,
               count |-> 0,
               pending |-> GetPendingMigrations(migrations, applied'),
               repeated |-> (ret.op = "pending"), before |-> pre]
    /\ prev' = Outcome(ret)
    /\ pre' = Snapshot
    /\ log' = <<>>
    /\ ran' = <<>>
    /\ UNCHANGED <<db, tables, executors, config, dir, direct, migrations,
                   mig_versions, mig_history, schema, tx, pc, op, cur, count,
                   anyErr, faults>>

\* A caller invokes Executor.GetPendingMigrations() between two calls of the
\* engine; repeated tells whether the call before was the same, and before
\* is the snapshot taken at that call.
CallPending ==
    /\ pc = "idle"
    /\ ret' = [op |-> "pending", err |-> "none", executed |-> FALSE,
               count |-> 0, pending |-> Pending,
               repeated |-> (ret.op = "pending"), before |-> pre]
    /\ prev' = Outcome(ret)
    /\ pre' = Snapshot
    /\ log' = <<>>
    /\ ran' = <<>>
    /\ UNCHANGED <<db, tables, executors, config, dir, direct, migrations,
                   applied, mig_versions, mig_history, schema, tx, pc, op, cur,
                   count, anyErr, faults>>

\* The engine is used, its pending list is asked for, and another engine
\* writes to the same store.
NextShared ==
    \/ NextEngine
    \/ CallPending
    \/ OtherWriter

SpecShared == Init /\ [][NextShared]_vars

\* ------------------------- the directory changes while the engine is in use
MaxFixedEntries == 1    \* SpecFixed: entries in the directory at construction

\* The file someone puts into the directory, or rewrites, after construction.
LaterEntries ==
    [f \in {"2023_01_01_10_00_00_create_users.sql"} |->
        File("-- disable-tx\nCREATE TABLE users (id BIGINT);")]

\* A file is added to the directory, or an existing one is rewritten.
DirectoryChange ==
    /\ pc = "idle"
    /\ db = "open"
    /\ dir.exists
    /\ \E f \in DOMAIN LaterEntries :
          /\ f \in DOMAIN dir.entries => dir.entries[f] # LaterEntries[f]
          /\ dir' = WithEntry(dir, f, LaterEntries[f])
    /\ UNCHANGED <<migrations, applied, mig_versions, mig_history, schema, tx,
                   pc, op, cur, count, ret, prev, pre, log, ran, anyErr,
                   faults, direct, db, tables, executors, config>>

\* No engine yet: a directory and an empty database.
InitFixed ==
    /\ \E names \in SUBSET {"2023_01_01_10_00_00_create_users.sql",
                            "2022_12_31_23_59_59_seed.sql"} :
          /\ Cardinality(names) <= MaxFixedEntries
          /\ dir = [exists |-> TRUE,
                    entries |-> [f \in names |-> CandidateEntries[f]]]
    /\ migrations = <<>>
    /\ schema = <<>>
    /\ applied = <<>>
    /\ mig_versions = <<>>
    /\ mig_history = <<>>
    /\ tx = NoTx
    /\ pc = "idle"
    /\ op = "none"
    /\ cur = 0
    /\ count = 0
    /\ ret = NoRet
    /\ prev = [op |-> "none", failed |-> FALSE]
    /\ pre = Snapshot
    /\ log = <<>>
    /\ ran = <<>>
    /\ anyErr = FALSE
    /\ faults = 0
    /\ direct = 0
    /\ executors = NoExecutors
    /\ config = NoConfig
    /\ db = "nil"
    /\ tables = {}

\* An operation of the constructed engine.
EngineOperation ==
    /\ db = "open"
    /\ \/ Next
       \/ CallPending

\* The engine is constructed and used while the directory changes.
NextFixed ==
    \/ New
    \/ EngineOperation
    \/ DirectoryChange

SpecFixed == InitFixed /\ [][NextFixed]_vars

\* ------------------------------------------------ the status report
\* Mutant: the first len(applied) migrations are taken to be the applied ones.
Statuses_ByPosition(ms, appliedVersions) ==
    [i \in DOMAIN ms |-> [ID |-> ms[i].ID, Applied |-> i <= Len(appliedVersions)]]

\* Migrator.Status: one MigrationStatus per loaded migration; Applied tells
\* whether the id is a key of appliedMap.
Statuses(ms, appliedVersions) ==
    [i \in DOMAIN ms |->
        [ID |-> ms[i].ID, Applied |-> ms[i].ID \in AppliedMap(appliedVersions)]]

\* cmdStatus: the three numbers of the "Total, Applied, Pending" line.
Counts(statuses) ==
    LET appliedCount == Cardinality({i \in DOMAIN statuses : statuses[i].Applied})
    IN  [Total |-> Len(statuses), Applied |-> appliedCount,
         Pending |-> Len(statuses) - appliedCount]

\* A caller invokes Migrator.Status(), as cmdStatus does: Executor.Status(),
\* then the conversion and the counts.
MigratorStatus ==
    /\ pc = "idle"
    /\ \/ /\ applied' = GetAppliedMigrations
          /\ ret' = [op |-> "report", err |-> "none", executed |-> FALSE,
                     count |-> 0, applied |-> applied',
                     statuses |-> Statuses(migrations, applied'),
                     counts |-> Counts(Statuses(migrations, applied'))]
          /\ UNCHANGED anyErr
          /\ NoFault
       \/ /\ Fault
          /\ ret' = [op |-> "report", err |-> "query", executed |-> FALSE,
                     count |-> 0, applied |-> <<>>, statuses |-> <<>>,
                     counts |-> Counts(<<>>)]
          /\ anyErr' = TRUE
          /\ UNCHANGED applied
    /\ prev' = Outcome(ret)
    /\ pre' = Snapshot
    /\ log' = <<>>
    /\ ran' = <<>>
    /\ UNCHANGED <<db, tables, executors, config, dir, direct, migrations,
                   mig_versions, mig_history, schema, tx, pc, op, cur, count>>

\* MigrateUp, MigrateUpAll and Status of the Migrator, on a shared database.
NextReport ==
    \/ NextEngine
    \/ MigratorStatus
    \/ OtherWriter

SpecReport == Init /\ [][NextReport]_vars

\* ----------------------------- mig.Initialize and the engine of its config
\* A path as path/filepath treats it: rooted or not, and the elements between
\* its separators ("./migrations/" has the elements ".", "migrations", "").
Path(abs, elems) == [abs |-> abs, elems |-> elems]

RECURSIVE CleanElems(_, _, _)
\* filepath.Clean, element by element: empty and "." elements are dropped,
\* ".." removes the element before it, is dropped at the root and kept at the
\* start of a path that is not rooted.
CleanElems(elems, abs, out) ==
    IF elems = <<>> THEN out
    ELSE LET h == Head(elems)
             t == Tail(elems)
         IN  IF h \in {"", "."} THEN CleanElems(t, abs, out)
             ELSE IF h # ".." THEN CleanElems(t, abs, Append(out, h))
             ELSE IF out # <<>> /\ out[Len(out)] # ".."
                  THEN CleanElems(t, abs, SubSeq(out, 1, Len(out) - 1))
             ELSE IF abs THEN CleanElems(t, abs, out)
             ELSE CleanElems(t, abs, Append(out, ".."))

\* filepath.Abs(path) in working directory wd: the elements of the cleaned
\* rooted path.
Abs(path, wd) ==
    IF path.abs THEN CleanElems(path.elems, TRUE, <<>>)
    ELSE CleanElems(wd \o path.elems, TRUE, <<>>)

\* config.DefaultMigrationsDir
DefaultMigrationsDir == Path(FALSE, <<"migrations">>)

\* The file config.CreateDefault writes.
CreateDefault ==
    [database  |-> [host |-> "localhost", port |-> DefaultPort,
                    name |-> "postgres", user |-> "postgres",
                    password |-> "postgres", sslmode |-> "disable"],
     directory |-> DefaultMigrationsDir]

RECURSIVE MkdirAll(_, _, _)
\* os.MkdirAll(path): the directories of the first k elements of path exist;
\* every missing one is created, empty, and entered in its parent.
MkdirAll(fs, path, k) ==
    IF k > Len(path) THEN fs
    ELSE LET here == SubSeq(path, 1, k)
             parent == SubSeq(path, 1, k - 1)
         IN  IF here \in DOMAIN fs THEN MkdirAll(fs, path, k + 1)
             ELSE MkdirAll(
                    [p \in DOMAIN fs \cup {here} |->
                        IF p = here THEN NoDir
                        ELSE IF p = parent
                             THEN WithEntry(fs[p], path[k], Subdirectory)
                             ELSE fs[p]],
                    path, k + 1)

\* The working directory of the tool.
WorkingDirectory == <<"srv", "app">>

\* The values of the -dir flag of "mig init".
DirArguments ==
    {DefaultMigrationsDir,
     Path(FALSE, <<".", "migrations", "">>),
     Path(FALSE, <<"db", "migrations">>),
     Path(FALSE, <<"..", "sql">>),
     Path(TRUE, <<"srv", "app", "migrations">>),
     Path(TRUE, <<"var", "lib", "sql">>)}

\* The file at configPath before "mig init": none, or one written earlier.
EarlierConfigFiles ==
    {NoConfig, CreateDefault,
     [CreateDefault EXCEPT !.directory = Path(FALSE, <<"db", "migrations">>)],
     [CreateDefault EXCEPT !.directory = Path(FALSE, <<>>)],
     [CreateDefault EXCEPT !.database.host = ""]}

\* The directories before "mig init": the working directory, and possibly a
\* migrations directory of an earlier project layout.
EarlierDirectories ==
    LET base == [p \in {<<>>} |-> NoDir]
        wd == MkdirAll(base, WorkingDirectory, 1)
        old == MkdirAll(wd, WorkingDirectory \o <<"migrations">>, 1)
    IN  {wd, old,
         [old EXCEPT ![WorkingDirectory \o <<"migrations">>] =
             WithEntry(@, "2023_01_01_10_00_00_create_users.sql",
                       CandidateEntries["2023_01_01_10_00_00_create_users.sql"])],
         MkdirAll(wd, WorkingDirectory \o <<"db", "migrations">>, 1)}

\* Validate's handling of Migrations.Directory: the default for an empty
\* value, and filepath.Abs for a path that is not rooted.
ValidateDirectory(directory, wd) ==
    LET d == IF directory.elems = <<>> /\ ~directory.abs
             THEN DefaultMigrationsDir ELSE directory
    IN  IF d.abs THEN d.elems ELSE Abs(d, wd)

\* Nothing has run: a file system, no engine, an empty database.
InitInitialize ==
    /\ \E file \in EarlierConfigFiles, fs \in EarlierDirectories :
          config = [wd |-> WorkingDirectory, file |-> file, fs |-> fs,
                    step |-> "start", arg |-> DefaultMigrationsDir,
                    made |-> [file |-> FALSE, dir |-> FALSE],
                    err |-> "none", directory |-> <<>>]
    /\ dir = [exists |-> FALSE, entries |-> <<>>]
    /\ db = "nil"
    /\ tables = {}
    /\ executors = NoExecutors
    /\ migrations = <<>>
    /\ schema = <<>>
    /\ applied = <<>>
    /\ mig_versions = <<>>
    /\ mig_history = <<>>
    /\ tx = NoTx
    /\ pc = "idle"
    /\ op = "none"
    /\ cur = 0
    /\ count = 0
    /\ ret = NoRet
    /\ prev = [op |-> "none", failed |-> FALSE]
    /\ pre = [versions |-> <<>>, history |-> <<>>,
              schema |-> <<>>, applied |-> <<>>,
              dir |-> [exists |-> FALSE, entries |-> <<>>]]
    /\ log = <<>>
    /\ ran = <<>>
    /\ anyErr = FALSE
    /\ faults = 0
    /\ direct = 0

\* mig.Initialize(configPath, migrationsDir): the config file is written if
\* there is none, the directory and its sample migration are created if the
\* directory does not exist.
Initialize ==
    /\ config.step = "start"
    /\ \E migrationsDir \in DirArguments, now \in Clock, later \in Clock :
          LET target == Abs(migrationsDir, config.wd)
              newFile == config.file = NoConfig
              newDir == target \notin DOMAIN config.fs
              made == MkdirAll(config.fs, target, 1)
              filename == FormatFilename(now) \o "_" \o Sanitize("init")
                              \o ".sql"
          IN  /\ ~Before(later, now)
              /\ config' =
                    [config EXCEPT
                       !.step = "initialized",
                       !.arg = migrationsDir,
                       !.made = [file |-> newFile, dir |-> newDir],
                       !.file = IF newFile THEN CreateDefault ELSE @,
                       !.fs = IF newDir
                              THEN [made EXCEPT ![target] =
                                      WithEntry(@, filename,
                                          File(Template(Sanitize("init"),
                                                        later)))]
                              ELSE @]
    /\ UNCHANGED <<migrations, applied, mig_versions, mig_history, schema, tx,
                   pc, op, cur, count, ret, prev, pre, log, ran, anyErr,
                   faults, direct, dir, db, tables, executors>>

\* mig.New(configPath) up to its call of executor.New: config.Load reads and
\* validates the file; Migrations.Directory, made absolute, names the
\* directory the engine is going to load.
LoadConfig ==
    /\ config.step = "initialized"
    /\ IF config.file = NoConfig
       THEN /\ config' = [config EXCEPT !.step = "failed", !.err = "read"]
            /\ UNCHANGED dir
       ELSE LET env == [n \in {EnvName[f] : f \in DOMAIN EnvName} |-> ""]
                r == Load(config.file.database, env)
                directory == ValidateDirectory(config.file.directory,
                                               config.wd)
            IN  IF r.err # "none"
                THEN /\ config' = [config EXCEPT !.step = "failed",
                                                 !.err = r.err]
                     /\ UNCHANGED dir
                ELSE /\ config' = [config EXCEPT !.step = "loaded",
                                                 !.directory = directory]
                     /\ dir' = IF directory \in DOMAIN config.fs
                               THEN config.fs[directory]
                               ELSE [exists |-> FALSE, entries |-> <<>>]
    /\ UNCHANGED <<migrations, applied, mig_versions, mig_history, schema, tx,
                   pc, op, cur, count, ret, prev, pre, log, ran, anyErr,
                   faults, direct, db, tables, executors>>

\* mig.New(configPath) from its call of executor.New on.
MigNew == config.step = "loaded" /\ New

NextInitialize ==
    \/ Initialize
    \/ LoadConfig
    \/ MigNew

SpecInitialize == InitInitialize /\ [][NextInitialize]_vars

\* ================================================================ claims
Recorded(i, rows) == i \in Range(Versions(rows))

HasHistory(i, rows) == \E k \in DOMAIN rows : rows[k].version = i

Transactional(i) == ~MigrationByID(i).DisableTx

\* A call has returned and no other has started since.
Returned(o) == pc = "idle" /\ ret.op = o

\* ---------------------------------------------------------------------- C1
\* C1: for every transactional migration, in every state (between steps of
\* any call, failed or not), the committed tables show its statement effects
\* exactly when they hold an applied record for its id.
C1_EffectsIffRecorded ==
    \A i \in DOMAIN schema :
        Transactional(i) => ((schema[i] > 0) <=> Recorded(i, mig_versions))

\* A transactional migration is committed and recorded, another call on the
\* engine has failed since.
C1_Witness ==
    /\ pc = "idle"
    /\ ret.err # "none"
    /\ \E i \in DOMAIN schema :
          Transactional(i) /\ schema[i] = 1 /\ Recorded(i, mig_versions)
    /\ \E i \in DOMAIN schema :
          Transactional(i) /\ schema[i] = 0 /\ i \in Range(ran)

\* ---------------------------------------------------------------------- C2
\* C2: when a direct ExecuteMigration call on a transactional migration that
\* had no applied record returns an error, whatever the failing step, the
\* committed tables and schema are what they were when the call started, and
\* hold no applied record and no history record for the id.
C2_FailedCallLeavesNoTrace ==
    (/\ Returned("one")
     /\ ret.err # "none"
     /\ Transactional(log[1])
     /\ ~Recorded(log[1], pre.versions))
    => /\ mig_versions = pre.versions
       /\ mig_history = pre.history
       /\ schema = pre.schema
       /\ ~Recorded(log[1], mig_versions)
       /\ (HasHistory(log[1], mig_history) => HasHistory(log[1], pre.history))

\* The call failed at its last step, the commit.
C2_Witness ==
    /\ Returned("one")
    /\ ret.err = "commit"
    /\ Transactional(log[1])
    /\ ~Recorded(log[1], pre.versions)
    /\ ran = log


C4_OneRecordPerID ==
    /\ \A j, k \in DOMAIN mig_versions :
          mig_versions[j].Version = mig_versions[k].Version => j = k
    /\ (/\ pc = "idle"
        /\ ret.op \in {"one", "next"}
        /\ Len(log) = 1
        /\ Recorded(log[1], pre.versions))
       => /\ ret.err \in {"unique", "begin", "exec"}
          /\ (ran = log => ret.err = "unique")
          /\ mig_versions = pre.versions
          /\ mig_history = pre.history

\* A direct call on a recorded migration ran its batch and was rejected by
\* the uniqueness violation.
C4_Witness ==
    /\ Returned("one")
    /\ Recorded(log[1], pre.versions)
    /\ ran = log
    /\ ret.err = "unique"


\* ---------------------------------------------------------------------- C5
\* C5: for every loaded list and every applied list (any order, ids that are
\* not loaded included), pending() is the subsequence of the loaded list
\* whose ids are absent from the applied list: the n-th loaded migration that
\* is not applied is the n-th entry of the result, and there are no others.
C5_PendingIsOrderedComplement ==
    Returned("pending") =>
        LET keep == {i \in DOMAIN migrations :
                        \A k \in DOMAIN applied :
                            applied[k].Version # migrations[i].ID}
        IN  /\ Len(ret.pending) = Cardinality(keep)
            /\ \A i \in keep :
                  ret.pending[Cardinality({j \in keep : j <= i})] = migrations[i]

\* The applied list is out of load order and holds an id that is not loaded;
\* some loaded migrations are applied and two are pending.
C5_Witness ==
    /\ Returned("pending")
    /\ Len(ret.pending) = 2
    /\ Len(migrations) > 2
    /\ \E k \in DOMAIN applied :
          \A i \in DOMAIN migrations : migrations[i].ID # applied[k].Version
    /\ \E j, k \in DOMAIN applied :
          j < k /\ applied[j].Version > applied[k].Version


\* The ids of pending() as it was when the call started, in load order.
IDs(ms) == [k \in DOMAIN ms |-> ms[k].ID]

PendingAtCall == IDs(GetPendingMigrations(migrations, pre.applied))

\* ---------------------------------------------------------------------- C6
\* C6 as stated: when ExecuteAllMigrations returns an error met on the k-th
\* pending migration, ExecuteMigration was invoked on the first k pending
\* migrations, once each and in load order, on none after the k-th, and
\* mig_versions gained exactly the first k-1 of them.
C6_ExactlyFirstKMinus1Recorded ==
    (Returned("all") /\ ret.err # "none") =>
        LET k == Len(log)
        IN  /\ k >= 1
            /\ k <= Len(PendingAtCall)
            /\ log = SubSeq(PendingAtCall, 1, k)
            /\ Versions(mig_versions) =
                  Versions(pre.versions) \o SubSeq(PendingAtCall, 1, k - 1)

\* C6 as amended: the same, except that the k-th migration is recorded too
\* when the error is the failure of the re-fetch that follows its execution
\* or, for a non-transactional migration, of its history write.
C6_StopsAtFirstError ==
    (Returned("all") /\ ret.err # "none") =>
        LET k == Len(log)
            kthRecorded ==
                \/ ret.err = "query"
                \/ ret.err = "history" /\ ~Transactional(log[k])
        IN  /\ k >= 1
            /\ k <= Len(PendingAtCall)
            /\ log = SubSeq(PendingAtCall, 1, k)
            /\ Versions(mig_versions) =
                  Versions(pre.versions)
                     \o SubSeq(PendingAtCall, 1, IF kthRecorded THEN k ELSE k - 1)

\* Three pending migrations: the first is applied, the statements of the
\* second fail, the third is never executed.
C6_Witness ==
    /\ Returned("all")
    /\ ret.err = "exec"
    /\ Len(PendingAtCall) = 3
    /\ log = <<1, 2>>
    /\ Versions(mig_versions) = <<1>>

\* ---------------------------------------------------------------------- C7
\* C7: whenever ExecuteAllMigrations returns (count, err), err nil or not,
\* count is the number of migrations applied during the call, that is the
\* number of rows mig_versions gained.
C7_CountIsNumberApplied ==
    Returned("all") => ret.count = Len(mig_versions) - Len(pre.versions)

\* ---------------------------------------------------------------------- C8
\* C8: an ExecuteAllMigrations that starts with all N loaded migrations
\* pending and returns no error returns N, leaves pending() empty and N rows
\* in mig_versions; an ExecuteAllMigrations that follows a successful one
\* returns (0, nil) and leaves the tables and the schema as they were.
C8_AllThenNothing ==
    /\ (/\ Returned("all")
        /\ ret.err = "none"
        /\ Len(PendingAtCall) = Len(migrations))
       => /\ ret.count = Len(migrations)
          /\ Len(Pending) = 0
          /\ Len(mig_versions) = Len(migrations)
    /\ (/\ Returned("all")
        /\ prev.op = "all"
        /\ ~prev.failed)
       => /\ ret.count = 0
          /\ ret.err = "none"
          /\ mig_versions = pre.versions
          /\ mig_history = pre.history
          /\ schema = pre.schema

\* Three migrations were applied by one ExecuteAllMigrations without any
\* failure, and the ExecuteAllMigrations after it has returned.
C8_Witness ==
    /\ Returned("all")
    /\ prev.op = "all"
    /\ ~prev.failed
    /\ ~anyErr
    /\ faults = 0
    /\ Len(migrations) = 3
    /\ Len(mig_versions) = 3
    /\ ret.count = 0

\* ---------------------------------------------------------------------- C9
\* C9: in a call of ExecuteAllMigrations or ExecuteNextMigration that follows
\* a failed ExecuteAllMigrations, the first migration executed is the earliest
\* loaded migration that is not yet applied, and no migration that was
\* already applied when the call started is executed again.
C9_ResumesAtFirstUnapplied ==
    (/\ pc = "idle"
     /\ ret.op \in {"all", "next"}
     /\ prev.op = "all"
     /\ prev.failed)
    => /\ Len(log) >= 1 =>
             /\ Len(GetPendingMigrations(migrations, pre.versions)) >= 1
             /\ log[1] = GetPendingMigrations(migrations, pre.versions)[1].ID
       /\ \A k \in DOMAIN ran : ~Recorded(ran[k], pre.versions)

\* --------------------------------------------------------------------- C10
\* C10: ExecuteNextMigration invokes ExecuteMigration on the first entry of
\* pending() and on nothing else; when it returns (true, nil) mig_versions
\* has gained exactly the row of that id; with pending() empty it returns
\* (false, nil), executes nothing and changes neither tables, schema nor cache.
C10_NextExecutesFirstPending ==
    Returned("next") =>
        /\ Len(PendingAtCall) = 0 =>
              /\ ~ret.executed
              /\ ret.err = "none"
              /\ log = <<>>
              /\ ran = <<>>
              /\ mig_versions = pre.versions
              /\ mig_history = pre.history
              /\ schema = pre.schema
              /\ applied = pre.applied
        /\ Len(PendingAtCall) > 0 =>
              /\ log = <<PendingAtCall[1]>>
              /\ ret.err = "none" =>
                    /\ ret.executed
                    /\ Versions(mig_versions) =
                          Versions(pre.versions) \o <<PendingAtCall[1]>>

\* The second of three migrations was executed by ExecuteNextMigration, which
\* returned (true, nil); the third is still pending.
C10_Witness ==
    /\ Returned("next")
    /\ ret.executed
    /\ ret.err = "none"
    /\ PendingAtCall = <<2, 3>>
    /\ Versions(mig_versions) = <<1, 2>>

\* --------------------------------------------------------------------- C11
\* C11: the applied list a successful status() returns is the content of
\* mig_versions at that moment, rows written by a failed call or by another
\* writer since construction included, also after a call has failed.
C11_StatusReturnsStoreContent ==
    (Returned("status") /\ ret.err = "none") => ret.applied = mig_versions

\* --------------------------------------------------------------------- C12
\* The last call ran the batch of a non-transactional migration and then
\* failed to write its applied record.
RecordWriteFailed ==
    /\ pc = "idle"
    /\ ret.op \in {"one", "next", "all"}
    /\ ret.err \in {"record", "unique"}
    /\ Len(log) >= 1
    /\ ~Transactional(log[Len(log)])
    /\ ran = log

\* C12 as stated: when the batch of a non-transactional migration succeeds
\* and the write of its applied record fails, the call returns an error, the
\* batch's effects stay, mig_versions holds no row for the id, pending()
\* still returns the migration, and it is what the next ExecuteNextMigration
\* executes (the first entry of pending()).
C12_RecordFailureLeavesPending ==
    RecordWriteFailed =>
        LET i == log[Len(log)]
        IN  /\ ret.err # "none"
            /\ schema[i] = pre.schema[i] + 1
            /\ ~Recorded(i, mig_versions)
            /\ Len(Pending) >= 1
            /\ Pending[1].ID = i

\* C12 as amended: the same for a migration that had no applied record when
\* the call started; it is what the next ExecuteNextMigration executes when
\* no earlier loaded migration is pending, which is always so when the
\* failed call was ExecuteNextMigration or ExecuteAllMigrations.
C12_UnrecordedStaysPending ==
    (RecordWriteFailed /\ ~Recorded(log[Len(log)], pre.versions)) =>
        LET i == log[Len(log)]
        IN  /\ ret.err = "record"
            /\ schema[i] = pre.schema[i] + 1
            /\ ~Recorded(i, mig_versions)
            /\ \E k \in DOMAIN Pending : Pending[k].ID = i
            /\ (ret.op \in {"next", "all"} => Pending[1].ID = i)
            /\ (\A k \in DOMAIN Pending : Pending[k].ID >= i) => Pending[1].ID = i

\* ExecuteNextMigration ran the batch of the second migration, which is
\* non-transactional, and the write of its applied record failed.
C12_Witness ==
    /\ Returned("next")
    /\ ret.err = "record"
    /\ log = <<2>>
    /\ ran = log
    /\ ~Transactional(2)
    /\ schema[2] = 1
    /\ Versions(mig_versions) = <<1>>
    /\ Pending[1].ID = 2

\* --------------------------------------------------------------------- C13
\* mig_history holds a row for id i with the full content of migration i.
HasFullHistory(i) ==
    \E k \in DOMAIN mig_history :
        mig_history[k] = HistoryRow(i, MigrationByID(i).Content)

Generated(m) == \E t \in Clock : m.Content = Template(m.Name, t)

\* C14: a migration file generated by create, to which the author has added
\* nothing, is loaded with DisableTx = false.
C14_GeneratedFileIsTransactional ==
    \A k \in DOMAIN migrations : Generated(migrations[k]) => ~migrations[k].DisableTx

\* --------------------------------------------------------------------- C15
\* The token starts at some offset of the content.
Occurs(token, content) ==
    \E j \in 0..Len(content) :
        HasPrefix(SubSeq(content, j + 1, Len(content)), token)

\* C15: every loaded migration has DisableTx = true exactly when its file
\* content holds "-- disable-tx" at some offset; ExecuteMigration runs the
\* statements of a migration with DisableTx on the connection, and those of
\* any other inside a transaction.
C15_DirectiveSelectsMode ==
    /\ \A k \in DOMAIN migrations :
          LET m == migrations[k]
          IN  /\ m.Content = dir.entries[m.Filename].Content
              /\ m.DisableTx <=> Occurs("-- disable-tx", m.Content)
    /\ pc \in {"exec", "record", "history"} =>
          /\ Occurs("-- disable-tx", MigrationByID(cur).Content)
          /\ ~tx.active
    /\ pc \in {"begin", "txexec", "txrecord", "txhistory", "commit"} =>
          ~Occurs("-- disable-tx", MigrationByID(cur).Content)

\* The statements of a migration whose file ends with the token have run
\* outside a transaction; a file with the look-alike "--disable-tx" is loaded
\* as transactional.
C15_Witness ==
    /\ pc = "record"
    /\ cur = "2023_01_01_10_00_00_Index"
    /\ schema[cur] = 1
    /\ \E k \in DOMAIN migrations :
          /\ migrations[k].Name = "add_email"
          /\ ~migrations[k].DisableTx

\* --------------------------------------------------------------------- C16
\* The entry is a regular file whose name has the migration filename shape.
Matching(directory, f) ==
    /\ ~directory.entries[f].IsDir
    /\ FindStringSubmatch(f) # <<>>

\* C16: the list a successful load returns holds the matching files in
\* strictly ascending order of timestamp, equal timestamps in ascending order
\* of id, and every order in which the directory can be listed gives that
\* same list.
C16_SortedWhateverTheListing ==
    (Returned("load") /\ ret.err = "none") =>
        /\ {migrations[k].Filename : k \in DOMAIN migrations}
              = {f \in DOMAIN dir.entries : Matching(dir, f)}
        /\ \A j, k \in DOMAIN migrations :
              j < k =>
                 \/ Before(migrations[j].CreatedAt, migrations[k].CreatedAt)
                 \/ /\ migrations[j].CreatedAt = migrations[k].CreatedAt
                    /\ StringLess(migrations[j].ID, migrations[k].ID)
        /\ \A files \in Enumerations(dir) :
              LoadMigrations(dir, files).migrations = migrations

\* Three files are loaded, two of them with one timestamp: the older file
\* comes first, then the two in the order of their ids ("I" before "c").
C16_Witness ==
    /\ Returned("load")
    /\ ret.err = "none"
    /\ IDs(migrations) = <<"2022_12_31_23_59_59_seed",
                           "2023_01_01_10_00_00_Index",
                           "2023_01_01_10_00_00_create_users">>

\* --------------------------------------------------------------------- C17
\* The entry is a file of the migration filename shape whose timestamp is
\* not a date and time of the calendar.
InvalidTimestamp(directory, f) ==
    /\ Matching(directory, f)
    /\ ~ParseTime(FindStringSubmatch(f)[2]).ok

\* C17: when some file of the directory has the filename shape and an
\* invalid timestamp, load returns an error and no migration, however many
\* well-formed files there are and wherever the file comes in the listing.
C17_InvalidTimestampFailsLoad ==
    (Returned("load") /\ \E f \in DOMAIN dir.entries : InvalidTimestamp(dir, f)) =>
        /\ ret.err # "none"
        /\ migrations = <<>>
        /\ \A files \in Enumerations(dir) :
              LET r == LoadMigrations(dir, files)
              IN  r.err # "none" /\ r.migrations = <<>>

\* load has failed on a directory that holds the file with month 13 and two
\* well-formed, readable migration files.
C17_Witness ==
    /\ Returned("load")
    /\ ret.err = "parse"
    /\ migrations = <<>>
    /\ DOMAIN dir.entries = {"2023_13_01_10_00_00_bad.sql",
                             "2023_01_01_10_00_00_create_users.sql",
                             "2023_01_02_10_00_00_add_email.sql"}

\* --------------------------------------------------------------------- C18
\* The entries load is to skip: subdirectories and files whose names do not
\* have the migration filename shape.
Skipped(directory) ==
    {f \in DOMAIN directory.entries : ~Matching(directory, f)}

\* The directory without the entries in names.
Without(directory, names) ==
    [exists  |-> directory.exists,
     entries |-> [f \in DOMAIN directory.entries \ names |-> directory.entries[f]]]

\* C18: load returns what it returns on the directory without its
\* subdirectories and non-matching files, error or list, for every listing
\* order of either; on a directory of such entries only it returns the empty
\* list and no error.
C18_NonMatchingEntriesAreSkipped ==
    Returned("load") =>
        /\ \A files \in Enumerations(Without(dir, Skipped(dir))) :
              LET r == LoadMigrations(Without(dir, Skipped(dir)), files)
              IN  /\ r.migrations = migrations
                  /\ (r.err = "none") <=> (ret.err = "none")
        /\ (dir.exists /\ Skipped(dir) = DOMAIN dir.entries) =>
              (ret.err = "none" /\ migrations = <<>>)

\* load has returned one migration from a directory that also holds a
\* subdirectory with a migration's name and an unreadable file without
\* timestamp.
C18_Witness ==
    /\ Returned("load")
    /\ ret.err = "none"
    /\ Len(migrations) = 1
    /\ Skipped(dir) = {"2023_01_04_10_00_00_archive.sql", "invalid_migration.sql"}

\* --------------------------------------------------------------------- C19
\* What load returns for the directory, listed in the order files; a missing
\* directory has no migrations.
Loaded(directory, files) ==
    IF directory.exists THEN LoadMigrations(directory, files)
    ELSE [err |-> "none", migrations |-> <<>>]

\* C19: after a create that succeeded, for any name, load returns the
\* migrations it returned before and exactly one more, whose name is the
\* input with spaces replaced by "_" and all other bytes outside
\* [A-Za-z0-9_] removed, and whose content is the generated template.
C19_CreateThenLoadYieldsOne ==
    (Returned("create") /\ ret.err = "none") =>
        \A filesBefore \in Enumerations(pre.dir), files \in Enumerations(dir) :
            LET before == Loaded(pre.dir, filesBefore)
                after  == Loaded(dir, files)
                new    == Range(after.migrations) \ Range(before.migrations)
            IN  before.err = "none" =>
                   /\ after.err = "none"
                   /\ Len(after.migrations) = Len(before.migrations) + 1
                   /\ Cardinality(new) = 1
                   /\ \A m \in new :
                         /\ m.Name = Sanitize(ret.name)
                         /\ m.Filename = ret.filename
                         /\ Generated(m)

\* --------------------------------------------------------------------- C20
\* The filename the last create call was to write.
TargetFilename == FormatFilename(ret.now) \o "_" \o Sanitize(ret.name) \o ".sql"

\* C20: create returns the already-exists error exactly when the directory
\* holds an entry with the target filename (same second, same sanitized
\* name); the directory is then what it was: the existing file keeps its
\* content and no file is added.
C20_ExistingFileIsKept ==
    Returned("create") =>
        /\ TargetFilename \in DOMAIN pre.dir.entries =>
              /\ ret.err = "exists"
              /\ ret.filename = ""
              /\ dir = pre.dir
        /\ ret.err = "exists" => TargetFilename \in DOMAIN pre.dir.entries

\* create was called with "Add Users!" in the second in which the file
\* ..._Add_Users.sql was created, with a later time in its header, and failed.
C20_Witness ==
    /\ Returned("create")
    /\ ret.err = "exists"
    /\ ret.name = "Add Users!"
    /\ TargetFilename = "2025_04_06_14_30_00_Add_Users.sql"
    /\ dir.entries[TargetFilename].Content
          = Template("Add_Users", <<2025, 4, 6, 14, 30, 1>>)
    /\ Cardinality(DOMAIN dir.entries) = 2

\* C21: when loading the migrations fails while the engine is constructed
\* (missing directory, unreadable file, invalid timestamp), New returns an
\* error and no engine, no statement batch has been executed and the
\* applied and history records are what they were before the call.
C21_FailedLoadReturnsNoEngine ==
    (ret.op = "new" /\ ret.err \in {"notexist", "read", "parse"}) =>
        /\ db = "nil"
        /\ migrations = <<>>
        /\ applied = <<>>
        /\ log = <<>>
        /\ ran = <<>>
        /\ schema = pre.schema
        /\ mig_versions = pre.versions
        /\ mig_history = pre.history

\* New failed on an invalid timestamp in a database that holds the records
\* of an earlier run.
C21_Witness ==
    /\ ret.op = "new"
    /\ ret.err = "parse"
    /\ db = "nil"
    /\ mig_versions # <<>>
    /\ mig_history # <<>>

\* C26: InitializeTables is idempotent: on a store whose tables exist it
\* returns no error unless a round trip fails, and every call, the one
\* inside New included, leaves the applied and history records as they were.
C26_InitializeIsIdempotent ==
    /\ (ret.op = "init" /\ ret.before = Tables /\ ~ret.injected) =>
           (ret.err = "none" /\ tables = Tables)
    /\ ret.op \in {"init", "new"} =>
           (mig_versions = pre.versions /\ mig_history = pre.history)

\* InitializeTables has been called twice in a row on a store that holds
\* records, and returned no error.
C26_Witness ==
    /\ prev = [op |-> "init", failed |-> FALSE]
    /\ ret.op = "init"
    /\ ret.err = "none"
    /\ ret.before = Tables
    /\ mig_versions # <<>>
    /\ mig_history # <<>>

\* The engines whose call on migration i returned nil.
Committers(i) ==
    {e \in Instances : /\ executors[e].pc = "done"
                       /\ executors[e].cur = i
                       /\ executors[e].err = "none"}

Rows(i, versions) == {k \in DOMAIN versions : versions[k].Version = i}

HistoryRows(i, history) == {k \in DOMAIN history : history[k].version = i}

\* C22: when two engines execute the same pending transactional migration
\* concurrently, at most one call returns nil; the store holds one applied
\* record, one history record and one committed effect of the statements for
\* each call that returned nil, and never more than one; when no round trip
\* failed, exactly one call returned nil and the other an error.
C22_OneOfTwoCommits ==
    \A i \in DOMAIN schema :
        /\ Cardinality(Rows(i, mig_versions)) <= 1
        /\ Cardinality(HistoryRows(i, mig_history)) <= 1
        /\ schema[i] <= 1
        /\ (\A e \in Instances : executors[e].pc = "done" /\ executors[e].cur = i) =>
              /\ Cardinality(Committers(i)) <= 1
              /\ Cardinality(Rows(i, mig_versions)) = Cardinality(Committers(i))
              /\ Cardinality(HistoryRows(i, mig_history)) = Cardinality(Committers(i))
              /\ schema[i] = Cardinality(Committers(i))
              /\ faults = 0 => Cardinality(Committers(i)) = 1

\* Both engines have run migration 1 with no failing round trip: engine 2
\* committed, engine 1 was refused by the unique constraint.
C22_Witness ==
    /\ executors[1] = [pc |-> "done", cur |-> 1, tx |-> NoTx, err |-> "unique"]
    /\ executors[2] = [pc |-> "done", cur |-> 1, tx |-> NoTx, err |-> "none"]
    /\ faults = 0
    /\ Versions(mig_versions) = <<1>>

\* ExecuteMigration goes on, or returns nil, after the step.
StepSucceeded == pc' = "refetch" \/ (pc' = "idle" /\ ret'.err = "none")

\* C23: a row written by RecordMigration or RecordHistory with a transaction
\* is held by the transaction and invisible in the store until Commit, becomes
\* visible with a successful Commit and is dropped by a rollback or a failed
\* Commit; written without a transaction it is visible at once and stays
\* whatever the later writes do.
C23_RowsFollowTheUnitOfWork ==
    [][/\ (pc = "txrecord" /\ pc' = "txhistory") =>
              tx'.versions = Append(tx.versions, VersionRow(cur))
       /\ (pc = "txhistory" /\ pc' = "commit") =>
              tx'.history = Append(tx.history,
                                   HistoryRow(cur, MigrationByID(cur).Content))
       /\ (tx.active /\ tx'.active) =>
              (mig_versions' = mig_versions /\ mig_history' = mig_history)
       /\ (tx.active /\ ~tx'.active) =>
              IF pc = "commit" /\ StepSucceeded
              THEN /\ mig_versions' = mig_versions \o tx.versions
                   /\ mig_history' = mig_history \o tx.history
              ELSE /\ mig_versions' = mig_versions
                   /\ mig_history' = mig_history
       /\ (pc = "record" /\ pc' = "history") =>
              /\ mig_versions' = Append(mig_versions, VersionRow(cur))
              /\ mig_history' = mig_history
       /\ pc = "history" =>
              /\ mig_versions' = mig_versions
              /\ StepSucceeded =>
                    mig_history' = Append(mig_history,
                                     HistoryRow(cur, MigrationByID(cur).Content))
      ]_vars

\* Both rows are written inside an open transaction and none is visible.
C23_Witness ==
    /\ pc = "commit"
    /\ tx.active
    /\ Versions(tx.versions) = <<cur>>
    /\ Len(tx.history) = 1
    /\ ~Recorded(cur, mig_versions)
    /\ ~HasHistory(cur, mig_history)

\* C24: after Close, every ExecuteNextMigration, ExecuteAllMigrations and
\* Status call returns an error, and executes and records nothing.
C24_CallsAfterCloseFail ==
    (db = "closed" /\ pc = "idle" /\ ret.op \in {"next", "all", "status"}) =>
        /\ ret.err # "none"
        /\ schema = pre.schema
        /\ mig_versions = pre.versions
        /\ mig_history = pre.history

\* C25: the migrations returned by one successful load have pairwise
\* distinct ids, also when several files carry the same timestamp.
C25_LoadedIDsAreDistinct ==
    (ret.op = "load" /\ ret.err = "none") =>
        \A j, k \in DOMAIN migrations :
            migrations[j].ID = migrations[k].ID => j = k

\* A load returned two migrations with the same timestamp.
C25_Witness ==
    /\ ret.op = "load"
    /\ ret.err = "none"
    /\ \E j, k \in DOMAIN migrations :
          /\ j # k
          /\ migrations[j].CreatedAt = migrations[k].CreatedAt
          /\ migrations[j].ID # migrations[k].ID

\* str is a decimal integer, with or without a sign, and nothing else.
ValidInteger(str) ==
    LET first == IF Len(str) > 0 /\ Char(str, 1) \in {"+", "-"} THEN 2 ELSE 1
    IN  /\ first <= Len(str)
        /\ \A k \in first..Len(str) : IsDigit(Char(str, k))

IntegerValue(str) ==
    IF Char(str, 1) = "-" THEN 0 - Atoi(SubSeq(str, 2, Len(str)))
    ELSE IF Char(str, 1) = "+" THEN Atoi(SubSeq(str, 2, Len(str)))
    ELSE Atoi(str)

\* The value the claim gives a field after the overrides.
Expected(file, env, f) ==
    IF f = "port"
    THEN IF env["DATABASE_PORT"] # "" /\ ValidInteger(env["DATABASE_PORT"])
         THEN IntegerValue(env["DATABASE_PORT"])
         ELSE file.port
    ELSE IF env[EnvName[f]] # "" THEN env[EnvName[f]] ELSE file[f]

\* C27: in the config Load returns, each of host, port, name, user, password
\* and sslmode has the value of its non-empty DATABASE_* variable, and the
\* file value when the variable is unset or empty or, for the port, is not a
\* valid integer (a value that is still missing then gets its default).
C27_EnvironmentOverridesFile ==
    (config # NoConfig /\ config.called /\ config.err = "none") =>
        config.loaded =
            Validate([f \in DOMAIN config.file |->
                         Expected(config.file, config.env, f)]).config

\* The text of err prints id.
Names(err, id) ==
    \E k \in DOMAIN ErrorText(err) :
        /\ ErrorText(err)[k][1] = "%s"
        /\ ErrorText(err)[k][2] = id

\* The kinds of failure ExecuteMigration returns an error for.
ExecuteMigrationFailures ==
    {"begin", "exec", "record", "unique", "history", "commit"}

\* C28: every error ExecuteMigration returns, whichever step failed, names the
\* id of the migration it was executing and wraps the error of the step.
C28_ErrorsNameTheMigration ==
    (pc = "idle" /\ ret.op \in {"one", "next", "all"}
                 /\ ret.err \in ExecuteMigrationFailures) =>
        /\ Names(ret.error, log[Len(log)])
        /\ ret.error.wraps = <<DriverError(ret.err)>>

\* C29: when ExecuteNextMigration has returned (true, nil), and when Status
\* has returned without error, the cached applied list is the whole content
\* of mig_versions in insertion order, whatever the cache held before.
C29_CacheIsTheWholeTable ==
    (pc = "idle" /\ ret.err = "none"
                 /\ (ret.op = "status" \/ (ret.op = "next" /\ ret.executed))) =>
        applied = mig_versions

\* ExecuteNextMigration returned (true, nil) on an engine whose cache had
\* missed a direct ExecuteMigration: the cache gained both rows.
C29_Witness ==
    /\ pc = "idle"
    /\ ret.op = "next"
    /\ ret.executed
    /\ ret.err = "none"
    /\ pre.applied = <<>>
    /\ Len(applied) = 2
    /\ applied = mig_versions

\* The step is a call of GetPendingMigrations.
PendingCalled ==
    /\ pc = "idle"
    /\ ret'.op = "pending"
    /\ (ret' # ret \/ pre' # pre \/ prev' # prev)

\* C30: GetPendingMigrations returns the loaded migrations that are not in
\* the cached applied list, makes no database round trip and changes neither
\* the engine nor the store; called again with no engine call in between it
\* returns the same list, also when another writer changed the store.
C30_PendingReadsOnlyTheCache ==
    [][PendingCalled =>
          /\ ret'.pending = GetPendingMigrations(migrations, applied)
          /\ UNCHANGED <<migrations, applied, mig_versions, mig_history,
                         schema, tx, faults, db>>
          /\ ret.op = "pending" => ret'.pending = ret.pending
      ]_vars

\* GetPendingMigrations was called twice in a row; between the calls another
\* writer recorded a migration that both results list as pending.
C30_Witness ==
    /\ ret.op = "pending"
    /\ ret.repeated
    /\ ret.before.versions # pre.versions
    /\ \E k \in DOMAIN ret.pending : Recorded(ret.pending[k].ID, pre.versions)

\* C31: while an engine exists, no step changes its loaded list: not an
\* operation of the engine, and not a change of the directory.
C31_LoadedListIsFixed ==
    [][db = "open" => migrations' = migrations]_vars

\* Status has returned on an engine whose directory no longer loads to the
\* list the engine holds.
C31_Witness ==
    /\ db = "open"
    /\ pc = "idle"
    /\ ret.op = "status"
    /\ ret.err = "none"
    /\ migrations # <<>>
    /\ \A files \in Enumerations(dir) :
          LoadMigrations(dir, files).migrations # migrations

\* C32: the report of Migrator.Status has one entry per loaded migration, in
\* load order, with Applied true exactly for the ids among the applied records
\* the store returned; Total = Applied + Pending, and Pending is the length of
\* the pending list computed on the refreshed cache.
C32_ReportMatchesStore ==
    (ret.op = "report" /\ ret.err = "none") =>
        /\ Len(ret.statuses) = Len(migrations)
        /\ \A i \in DOMAIN migrations :
              /\ ret.statuses[i].ID = migrations[i].ID
              /\ ret.statuses[i].Applied <=> Recorded(migrations[i].ID, ret.applied)
        /\ ret.counts.Total = Len(migrations)
        /\ ret.counts.Total = ret.counts.Applied + ret.counts.Pending
        /\ ret.counts.Pending = Len(GetPendingMigrations(migrations, ret.applied))

\* A report in which the first migration is pending and the second applied.
C32_Witness ==
    /\ ret.op = "report"
    /\ ret.err = "none"
    /\ Len(ret.statuses) = 2
    /\ ~ret.statuses[1].Applied
    /\ ret.statuses[2].Applied
    /\ ret.counts = [Total |-> 2, Applied |-> 1, Pending |-> 1]

\* C33: on one engine that starts on an empty store and is driven through
\* ExecuteNextMigration and ExecuteAllMigrations (and Status), the i-th row of
\* mig_versions is always the i-th loaded migration: the applied ids are a
\* prefix of the load order, in load order.
C33_AppliedIsPrefixOfLoadOrder ==
    /\ Len(mig_versions) <= Len(migrations)
    /\ \A k \in DOMAIN mig_versions : mig_versions[k].Version = migrations[k].ID

\* Two of three migrations are applied, after a call that returned an error.
C33_Witness ==
    /\ pc = "idle"
    /\ anyErr
    /\ Len(migrations) = 3
    /\ Versions(mig_versions) = <<migrations[1].ID, migrations[2].ID>>

\* The ids of the rows of after that are not rows of before.
NewVersions(before, after) ==
    {after[k].Version : k \in (Len(before) + 1)..Len(after)}

\* C34: a step writes an applied record, into the table or into the open
\* transaction, only for the migration being executed and only after its
\* statement batch has run without error in the same call; a record that
\* becomes visible comes with a committed effect of the batch.
C34_RecordOnlyAfterStatements ==
    [][/\ \A i \in NewVersions(mig_versions, mig_versions') :
             /\ schema'[i] >= 1
             /\ i \in Range(ran)
             /\ pc = "record" => (i = cur /\ ran[Len(ran)] = cur)
             /\ pc = "commit" => (i = cur /\ i \in tx.stmts)
       /\ tx'.active =>
             \A i \in NewVersions(tx.versions, tx'.versions) :
                 /\ i = cur
                 /\ i \in tx.stmts
                 /\ ran # <<>> /\ ran[Len(ran)] = cur
      ]_vars

\* Both kinds of record have been written in one call: the row of a
\* non-transactional migration is in the table, that of a transactional one
\* in the open transaction.
C34_Witness ==
    /\ pc = "commit"
    /\ Versions(tx.versions) = <<cur>>
    /\ Len(ran) = 2
    /\ Recorded(ran[1], mig_versions)
    /\ ~Transactional(ran[1])

\* The positions of the history rows of migration i.
HistoryOf(i, rows) == {k \in DOMAIN rows : rows[k].version = i}

\* C35: in every state, between calls and in the middle of one, in both
\* execution modes and whatever has failed, each id with a history record has
\* an applied record and no id has two history records.
C35_HistoryWithinApplied ==
    \A i \in DOMAIN schema :
        /\ HasHistory(i, mig_history) => Recorded(i, mig_versions)
        /\ Cardinality(HistoryOf(i, mig_history)) <= 1

\* A recorded migration has been executed a second time: its statements ran
\* twice and a call on it failed on the UNIQUE constraint, and it still has
\* one history record.
C35_Witness ==
    \E i \in DOMAIN schema :
        /\ pc = "idle"
        /\ ret.err = "unique"
        /\ log # <<>> /\ log[Len(log)] = i
        /\ schema[i] = 2
        /\ Cardinality(HistoryOf(i, mig_history)) = 1
        /\ Recorded(i, mig_versions)

\* C36: a call of ExecuteNextMigration that returns an error, from
\* ExecuteMigration or from the re-fetch, on its own or as an iteration of
\* ExecuteAllMigrations, leaves e.applied as it was when the call began: the
\* only step of a call that changes the cache is the re-fetch that succeeds,
\* which ends the call without error, and a failed ExecuteNextMigration
\* returns with the cache of the state before the call.
C36_FailedNextKeepsCache ==
    [][/\ (pc # "idle" /\ applied' # applied) =>
             /\ pc = "refetch"
             /\ IF op = "next"
                THEN pc' = "idle" /\ ret'.err = "none"
                ELSE pc' = "next"
       /\ (pc # "idle" /\ pc' = "idle" /\ ret'.op = "next"
              /\ ret'.err # "none") => applied' = pre.applied
      ]_vars

\* ExecuteNextMigration has returned the error of the re-fetch: the store
\* holds a version row more than before the call, the cache, which was not
\* empty, is the one of before the call.
C36_Witness ==
    /\ Returned("next")
    /\ ret.err = "query"
    /\ Len(mig_versions) = Len(pre.versions) + 1
    /\ applied = pre.applied
    /\ applied # <<>>

\* The pending list ExecuteAllMigrations started from.
PendingAtStart == GetPendingMigrations(migrations, pre.applied)

\* The calls of ExecuteNextMigration the running or returned
\* ExecuteAllMigrations has made: one per migration handed to
\* ExecuteMigration, and the one that found nothing pending and ended the loop.
NextCalls ==
    Len(log) + (IF pc = "idle" /\ ret.err = "none" THEN 1 ELSE 0)

\* C37: ExecuteAllMigrations terminates, with at most P+1 calls of
\* ExecuteNextMigration for P migrations pending at its start: an iteration
\* that succeeds leaves a strictly shorter pending list, any other iteration
\* ends the loop.
C37_ExecuteAllTerminates ==
    /\ (op = "all" /\ pc # "idle") ~> (pc = "idle")
    /\ []((op = "all" \/ Returned("all")) =>
             NextCalls <= Len(PendingAtStart) + 1)
    /\ [][(op = "all" /\ pc \notin {"idle", "next"}) =>
             \/ /\ pc = "refetch" /\ pc' = "next"
                /\ Len(Pending') < Len(Pending)
             \/ pc' = "idle" /\ ret'.err # "none"
             \/ pc' \notin {"idle", "next"} /\ applied' = applied
         ]_vars

\* ExecuteAllMigrations has returned after P+1 calls of ExecuteNextMigration
\* for the three migrations that were pending.
C37_Witness ==
    /\ Returned("all")
    /\ ret.err = "none"
    /\ Len(PendingAtStart) = 3
    /\ NextCalls = 4

\* The directory "mig init" was asked for, as a rooted path.
InitDirectory == Abs(config.arg, config.wd)

\* C38: after Initialize has created the config file and the directory dir,
\* the migrations directory of the loaded configuration designates dir: the
\* engine of that configuration reads the directory init created, with its
\* sample migration, for every value of dir.
C38_ConfigDesignatesInitDirectory ==
    (config.step = "loaded" /\ config.made.file /\ config.made.dir) =>
        /\ config.directory = InitDirectory
        /\ dir = config.fs[InitDirectory]
        /\ (ret.op = "new" /\ ret.err = "none") => Len(migrations) = 1

====
